---- MODULE Spec2Model ----
(***************************************************************************)
(* A model of the check-execution core of windcdf-qc: the Flag model, the  *)
(* six built-in checks, the CheckRegistry and the QCEngine.                *)
(*                                                                         *)
(* Conventions of the translation from Python:                             *)
(*  - a float sample is an integer; NaN is the sentinel NaN, and every     *)
(*    comparison that involves it is written out as false, as IEEE does;   *)
(*  - an optional value (None or x) is a set with at most one element;     *)
(*  - a Python list is a sequence; index i of the source is position i+1;  *)
(*  - a flag carries, beside the fields of the dataclass, the field        *)
(*    "sample": the 0-based index of the sample the check was looking at   *)
(*    when it built the flag (the source keeps only times[i]).             *)
(***************************************************************************)
EXTENDS Integers, Sequences, FiniteSets, TLC

(***************************************************************************)
(* Bounds of the model.                                                    *)
(***************************************************************************)
MaxLen == 4
MaxVarList == 2
MaxCheckList == 2

(***************************************************************************)
(* Values.                                                                 *)
(***************************************************************************)
NaN == -9999

None == {}

Some(x) == {x}

TheValue(opt) == CHOOSE x \in opt : TRUE

isnan(v) == v = NaN

Abs(x) == IF x < 0 THEN -x ELSE x

RECURSIVE SeqSum(_)
SeqSum(s) == IF s = <<>> THEN 0 ELSE Head(s) + SeqSum(Tail(s))

RECURSIVE SeqSumSq(_)
SeqSumSq(s) == IF s = <<>> THEN 0 ELSE Head(s) * Head(s) + SeqSumSq(Tail(s))

\* The concatenation of F(lo), F(lo+1), ..., F(hi-1): a Python
\* "for i in range(lo, hi)" loop that appends to one list.
ForRange(lo, hi, F(_)) ==
    LET acc[k \in Int] == IF k >= hi THEN <<>> ELSE F(k) \o acc[k + 1]
    IN  acc[lo]

\* str.lower() of one character.
LowerChar(c) ==
    CASE c = "A" -> "a" [] c = "B" -> "b" [] c = "C" -> "c" [] c = "D" -> "d"
      [] c = "E" -> "e" [] c = "F" -> "f" [] c = "G" -> "g" [] c = "H" -> "h"
      [] c = "I" -> "i" [] c = "J" -> "j" [] c = "K" -> "k" [] c = "L" -> "l"
      [] c = "M" -> "m" [] c = "N" -> "n" [] c = "O" -> "o" [] c = "P" -> "p"
      [] c = "Q" -> "q" [] c = "R" -> "r" [] c = "S" -> "s" [] c = "T" -> "t"
      [] c = "U" -> "u" [] c = "V" -> "v" [] c = "W" -> "w" [] c = "X" -> "x"
      [] c = "Y" -> "y" [] c = "Z" -> "z" [] OTHER -> c

\* variable.lower()
RECURSIVE Lower(_)
Lower(variable) ==
    IF variable = "" THEN ""
    ELSE LowerChar(SubSeq(variable, 1, 1))
            \o Lower(SubSeq(variable, 2, Len(variable)))

\* sub in s, for two strings.
InStr(sub, s) ==
    \E k \in 1..(Len(s) - Len(sub) + 1) : SubSeq(s, k, k + Len(sub) - 1) = sub

(***************************************************************************)
(* models/flags.py                                                         *)
(***************************************************************************)
FlagSeverity == {"GOOD", "SUSPECT", "BAD", "MISSING"}

FlagReason ==
    {"NONE", "RANGE_CHECK", "SPIKE", "STUCK_SENSOR", "GAP", "RAMP_RATE",
     "DIRECTION_WRAP", "MANUAL"}

Flag(timestamp, variable, severity, reason, check_name, message, sample) ==
    [timestamp |-> timestamp, variable |-> variable, severity |-> severity,
     reason |-> reason, check_name |-> check_name, message |-> message,
     auto_generated |-> TRUE, sample |-> sample]

\* The members of the two enumerations, by name, and their values.
FlagSeverityValues ==
    [n \in FlagSeverity |->
        CASE n = "GOOD" -> 0 [] n = "SUSPECT" -> 1 [] n = "BAD" -> 2
          [] n = "MISSING" -> 3]

FlagReasonValues ==
    [n \in FlagReason |->
        CASE n = "NONE" -> 0 [] n = "RANGE_CHECK" -> 1 [] n = "SPIKE" -> 2
          [] n = "STUCK_SENSOR" -> 4 [] n = "GAP" -> 8 [] n = "RAMP_RATE" -> 16
          [] n = "DIRECTION_WRAP" -> 32 [] n = "MANUAL" -> 64]

\* member.name: the name under which the member's value is defined.
EnumName(values, member) ==
    CHOOSE n \in DOMAIN values : values[n] = values[member]

\* Enum[name]: the member of that name, or None for the KeyError.
EnumByName(values, name) ==
    IF name \in DOMAIN values THEN Some(name) ELSE None

\* datetime.isoformat() of an instant counted in seconds: the fields of
\* the string "D T hh:mm:ss", D the day.
isoformat(t) ==
    [day |-> t \div 86400, hour |-> (t % 86400) \div 3600,
     minute |-> (t % 3600) \div 60, second |-> t % 60]

\* datetime.fromisoformat(string)
fromisoformat(iso) ==
    iso.day * 86400 + iso.hour * 3600 + iso.minute * 60 + iso.second

\* The fields of the dataclass, without the field "sample" of the model.
FlagFields(flag) ==
    [timestamp |-> flag.timestamp, variable |-> flag.variable,
     severity |-> flag.severity, reason |-> flag.reason,
     check_name |-> flag.check_name, message |-> flag.message,
     auto_generated |-> flag.auto_generated]

\* Flag.to_dict: self.timestamp.isoformat() raises on an absent timestamp.
Flag_to_dict(flag) ==
    IF flag.timestamp = None
    THEN [raised |-> TRUE, value |-> <<>>]
    ELSE [raised |-> FALSE,
          value |-> [timestamp |-> isoformat(TheValue(flag.timestamp)),
                     variable |-> flag.variable,
                     severity |-> EnumName(FlagSeverityValues, flag.severity),
                     reason |-> EnumName(FlagReasonValues, flag.reason),
                     check_name |-> flag.check_name,
                     message |-> flag.message,
                     auto_generated |-> flag.auto_generated]]

\* A variant of Flag_from_dict: auto_generated is left to its default.
Flag_from_dict_default_auto(data) ==
    [timestamp |-> Some(fromisoformat(data.timestamp)),
     variable |-> data.variable,
     severity |-> TheValue(EnumByName(FlagSeverityValues, data.severity)),
     reason |-> TheValue(EnumByName(FlagReasonValues, data.reason)),
     check_name |-> data.check_name,
     message |-> data.message,
     auto_generated |-> TRUE]

\* Flag.from_dict, on a dictionary that Flag.to_dict has made.
Flag_from_dict(data) ==
    [timestamp |-> Some(fromisoformat(data.timestamp)),
     variable |-> data.variable,
     severity |-> TheValue(EnumByName(FlagSeverityValues, data.severity)),
     reason |-> TheValue(EnumByName(FlagReasonValues, data.reason)),
     check_name |-> data.check_name,
     message |-> data.message,
     auto_generated |-> data.auto_generated]

(***************************************************************************)
(* A DataArray: the samples and the time coordinate of its first           *)
(* dimension, which is absent (None) or as long as the samples. The        *)
(* samples are floats: sample v of a series in denom-ths is the float      *)
(* nearest to v/denom, which the literal v/denom denotes in Python.        *)
(***************************************************************************)
\* A series of whole-number samples.
DataArray(values, times) == [values |-> values, times |-> times, denom |-> 1]

\* A series of samples written with decimals, as 0.11 is 11 of denom 100.
DecimalArray(values, times, denom) ==
    [values |-> values, times |-> times, denom |-> denom]

\* times = pd.to_datetime(coord) if the coordinate exists else [None] * len
TimesOf(data) ==
    IF data.times = None
    THEN [i \in 1..Len(data.values) |-> None]
    ELSE [i \in 1..Len(data.values) |-> Some(TheValue(data.times)[i])]

(***************************************************************************)
(* qc/checks/_base.py                                                      *)
(***************************************************************************)
\* config.get(name, {}).get(key, default); a configured value x is Some(x).
get_config_value(config, name, key, default) ==
    IF name \in DOMAIN config /\ key \in DOMAIN config[name]
    THEN Some(config[name][key])
    ELSE default

(***************************************************************************)
(* qc/checks/range_check.py                                                *)
(***************************************************************************)
DEFAULT_RANGES(var_lower) ==
    CASE var_lower = "wind_speed" -> <<Some(0), Some(75)>>
      [] var_lower = "wind_direction" -> <<Some(0), Some(360)>>
      [] var_lower = "temperature" -> <<Some(-60), Some(60)>>
      [] var_lower = "pressure" -> <<Some(800), Some(1100)>>
      [] var_lower = "humidity" -> <<Some(0), Some(100)>>
      [] OTHER -> <<None, None>>

RangeCheck_min(variable, config) ==
    get_config_value(config, "range_check", variable \o "_min",
                     DEFAULT_RANGES(Lower(variable))[1])

RangeCheck_max(variable, config) ==
    get_config_value(config, "range_check", variable \o "_max",
                     DEFAULT_RANGES(Lower(variable))[2])

\* A variant of RangeCheck_sample: the bounds are exclusive (<= and >=).
RangeCheck_sample_exclusive(variable, data, min_val, max_val, i) ==
    LET val == data.values[i + 1]
        time == TimesOf(data)[i + 1]
    IN  IF isnan(val) THEN <<>>
        ELSE IF \E m \in min_val : val <= m
        THEN << Flag(time, variable, "BAD", "RANGE_CHECK", "range_check",
                     <<"below minimum", val, TheValue(min_val)>>, i) >>
        ELSE IF \E m \in max_val : val >= m
        THEN << Flag(time, variable, "BAD", "RANGE_CHECK", "range_check",
                     <<"above maximum", val, TheValue(max_val)>>, i) >>
        ELSE <<>>

\* The body of the loop over the samples, for the 0-based index i.
RangeCheck_sample(variable, data, min_val, max_val, i) ==
    LET val == data.values[i + 1]
        time == TimesOf(data)[i + 1]
    IN  IF isnan(val) THEN <<>>
        ELSE IF \E m \in min_val : val < m
        THEN << Flag(time, variable, "BAD", "RANGE_CHECK", "range_check",
                     <<"below minimum", val, TheValue(min_val)>>, i) >>
        ELSE IF \E m \in max_val : val > m
        THEN << Flag(time, variable, "BAD", "RANGE_CHECK", "range_check",
                     <<"above maximum", val, TheValue(max_val)>>, i) >>
        ELSE <<>>

\* A variant of RangeCheck_run: "if min_val is None or max_val is None".
RangeCheck_run_needs_both(variable, data, config) ==
    LET min_val == RangeCheck_min(variable, config)
        max_val == RangeCheck_max(variable, config)
        Body(i) == RangeCheck_sample(variable, data, min_val, max_val, i)
    IN  IF min_val = None \/ max_val = None THEN <<>>
        ELSE ForRange(0, Len(data.values), Body)

RangeCheck_run(variable, data, config) ==
    LET min_val == RangeCheck_min(variable, config)
        max_val == RangeCheck_max(variable, config)
        Body(i) == RangeCheck_sample(variable, data, min_val, max_val, i)
    IN  IF min_val = None /\ max_val = None THEN <<>>
        ELSE ForRange(0, Len(data.values), Body)

(***************************************************************************)
(* Python floats, as far as qc/scoring.py and the mean of a spike window   *)
(* compute with them. A float is an IEEE binary64 number; the ones met     *)
(* there are not negative and below 2^16, and multiples of 2^-64. Such a   *)
(* float is kept exactly, as the multiple of 2^-64 it is, written with     *)
(* four digits of base 2^20, the least significant first. Every operation  *)
(* computes the exact result and rounds it to 53 significant bits, ties    *)
(* to even.                                                                *)
(***************************************************************************)
FloatBase == 1048576

RECURSIVE Pow2(_)
Pow2(k) == IF k = 0 THEN 1 ELSE 2 * Pow2(k - 1)

\* The digits of a natural number below FloatBase * FloatBase.
Digits(k) == <<k % FloatBase, k \div FloatBase, 0, 0>>

AddDigits(a, b) ==
    LET carry[i \in 1..4] ==
            IF i = 1 THEN 0
            ELSE (a[i - 1] + b[i - 1] + carry[i - 1]) \div FloatBase
        digit(i) == (a[i] + b[i] + carry[i]) % FloatBase
    IN  <<digit(1), digit(2), digit(3), digit(4)>>

\* a - b, for a >= b.
SubDigits(a, b) ==
    LET borrow[i \in 1..4] ==
            IF i = 1 THEN 0
            ELSE IF a[i - 1] - b[i - 1] - borrow[i - 1] < 0 THEN 1 ELSE 0
        digit(i) == (a[i] - b[i] - borrow[i] + FloatBase) % FloatBase
    IN  <<digit(1), digit(2), digit(3), digit(4)>>

LessDigits(a, b) ==
    \E i \in 1..4 : a[i] < b[i] /\ \A k \in (i + 1)..4 : a[k] = b[k]

\* a * m, for a natural number m < 2048.
MulSmall(a, m) ==
    LET carry[i \in 1..4] ==
            IF i = 1 THEN 0 ELSE (a[i - 1] * m + carry[i - 1]) \div FloatBase
        digit(i) == (a[i] * m + carry[i]) % FloatBase
    IN  <<digit(1), digit(2), digit(3), digit(4)>>

\* The quotient and the remainder of a by a natural number 0 < n < 2048.
DivSmall(a, n) ==
    LET rem[i \in 1..5] ==
            IF i = 5 THEN 0 ELSE (rem[i + 1] * FloatBase + a[i]) % n
        digit(i) == (rem[i + 1] * FloatBase + a[i]) \div n
    IN  [quotient |-> <<digit(1), digit(2), digit(3), digit(4)>>,
         remainder |-> rem[1]]

\* The number of bits of a: 0 for zero.
BitLength(a) ==
    IF \A i \in 1..4 : a[i] = 0 THEN 0
    ELSE LET top == CHOOSE i \in 1..4 :
                        a[i] # 0 /\ \A k \in (i + 1)..4 : a[k] = 0
             bits == CHOOSE k \in 1..20 :
                        Pow2(k - 1) <= a[top] /\ a[top] < Pow2(k)
         IN  20 * (top - 1) + bits

\* Rounding to a multiple of 2^g: low is the number without its last g
\* bits, r is what these bits hold and num/den what comes after them. It
\* is rounded up if that is more than half of 2^g, or half of it and the
\* last bit kept is 1.
RoundUp(low, r, num, den, g) ==
    \/ 2 * (r * den + num) > Pow2(g) * den
    \/ /\ 2 * (r * den + num) = Pow2(g) * den
       /\ (low[1] \div Pow2(g)) % 2 = 1

RoundLow(low, r, num, den, g) ==
    IF RoundUp(low, r, num, den, g) THEN AddDigits(low, Digits(Pow2(g))) ELSE low

RoundBits(a, num, den, g) ==
    RoundLow(SubDigits(a, Digits(a[1] % Pow2(g))), a[1] % Pow2(g), num, den, g)

\* The float nearest to a + num/den, for 0 <= num < den < 2048: the
\* multiple of 2^g nearest to it, for the g that leaves 53 bits, and of two
\* nearest ones the one whose last bit is 0.
RoundFloat(a, num, den) ==
    RoundBits(a, num, den, IF BitLength(a) > 53 THEN BitLength(a) - 53 ELSE 0)

FloatZero == <<0, 0, 0, 0>>

FloatOne == <<0, 0, 0, 16>>

\* a + b
FloatAdd(a, b) == RoundFloat(AddDigits(a, b), 0, 1)

\* a - b, for a >= b
FloatSub(a, b) == RoundFloat(SubDigits(a, b), 0, 1)

\* a / n, for an int n > 0
FloatDivInt(a, n) == RoundFloat(DivSmall(a, n).quotient, DivSmall(a, n).remainder, n)

\* round(a, 3), in thousandths: the multiple of 1/1000 nearest to the
\* float, and of two nearest ones the even one.
Round3(a) ==
    LET p == MulSmall(a, 1000)
        whole == p[4] \div 16
        frac == <<p[1], p[2], p[3], p[4] % 16>>
        half == <<0, 0, 0, 8>>
    IN  IF LessDigits(half, frac) THEN whole + 1
        ELSE IF frac = half THEN whole + (whole % 2)
        ELSE whole

\* float(k), for a whole number 0 <= k < 65536
FloatOfInt(k) == <<0, 0, 0, 16 * k>>

\* abs(a - b)
FloatAbsDiff(a, b) ==
    IF LessDigits(a, b) THEN FloatSub(b, a) ELSE FloatSub(a, b)

\* np.add.reduce over a list of fewer than 8 floats: they are added one
\* after the other.
RECURSIVE FloatSum(_, _)
FloatSum(floats, acc) ==
    IF floats = <<>> THEN acc
    ELSE FloatSum(Tail(floats), FloatAdd(acc, Head(floats)))

(***************************************************************************)
(* Natural numbers of any size, for the products of floats that are        *)
(* compared exactly: a number is the list of its digits of base 1024, the  *)
(* least significant first.                                                *)
(***************************************************************************)
BigBase == 1024

\* A float as the number of 2^-64 it is.
Big(a) ==
    <<a[1] % BigBase, a[1] \div BigBase, a[2] % BigBase, a[2] \div BigBase,
      a[3] % BigBase, a[3] \div BigBase, a[4] % BigBase, a[4] \div BigBase>>

BigDigit(a, i) == IF i \in 1..Len(a) THEN a[i] ELSE 0

\* The digits of the number whose column k has the weight BigBase^(k-1).
RECURSIVE BigCarry(_, _)
BigCarry(columns, carry) ==
    IF columns = <<>>
    THEN IF carry = 0 THEN <<>>
         ELSE <<carry % BigBase>> \o BigCarry(<<>>, carry \div BigBase)
    ELSE <<(Head(columns) + carry) % BigBase>>
            \o BigCarry(Tail(columns), (Head(columns) + carry) \div BigBase)

RECURSIVE BigColumn(_, _, _, _)
BigColumn(a, b, k, i) ==
    IF i > Len(a) THEN 0
    ELSE a[i] * BigDigit(b, k + 1 - i) + BigColumn(a, b, k, i + 1)

RECURSIVE BigColumns(_, _, _)
BigColumns(a, b, k) ==
    IF k > Len(a) + Len(b) - 1 THEN <<>>
    ELSE <<BigColumn(a, b, k, 1)>> \o BigColumns(a, b, k + 1)

\* a * b
BigMul(a, b) == BigCarry(BigColumns(a, b, 1), 0)

RECURSIVE BigSums(_, _, _)
BigSums(a, b, k) ==
    IF k > Len(a) /\ k > Len(b) THEN <<>>
    ELSE <<BigDigit(a, k) + BigDigit(b, k)>> \o BigSums(a, b, k + 1)

\* a + b
BigAdd(a, b) == BigCarry(BigSums(a, b, 1), 0)

\* a < b
BigLess(a, b) ==
    \E i \in 1..(Len(a) + Len(b)) :
        /\ BigDigit(a, i) < BigDigit(b, i)
        /\ \A k \in (i + 1)..(Len(a) + Len(b)) : BigDigit(a, k) = BigDigit(b, k)

(***************************************************************************)
(* qc/checks/spike_check.py                                                *)
(***************************************************************************)
\* window[~np.isnan(window)]
DropNaN(s) == SelectSeq(s, LAMBDA v : ~isnan(v))

\* The floats of samples that are not negative.
RECURSIVE SampleFloats(_, _)
SampleFloats(samples, denom) ==
    IF samples = <<>> THEN <<>>
    ELSE <<FloatDivInt(FloatOfInt(Head(samples)), denom)>>
            \o SampleFloats(Tail(samples), denom)

\* np.mean(window) = np.add.reduce(window) / len(window)
FloatMean(floats) == FloatDivInt(FloatSum(floats, FloatZero), Len(floats))

\* abs(window - mean), the deviations whose squares np.std adds up.
RECURSIVE Deviations(_, _)
Deviations(floats, mean) ==
    IF floats = <<>> THEN <<>>
    ELSE <<FloatAbsDiff(Head(floats), mean)>> \o Deviations(Tail(floats), mean)

RECURSIVE BigSumSq(_)
BigSumSq(floats) ==
    IF floats = <<>> THEN <<>>
    ELSE BigAdd(BigMul(Big(Head(floats)), Big(Head(floats))),
                BigSumSq(Tail(floats)))

\* std == 0 for std = np.std(window) = sqrt(mean((window - mean)^2)). Of
\* whole numbers the sums are exact, and std is 0 when m*Q - S*S is, for S
\* and Q the sum and the sum of squares of the m values. Of other floats
\* the mean is rounded: std is 0 when every deviation from the rounded
\* mean is 0 (a deviation that is not 0 is 2^-64 at least, and its square
\* is a float that is not 0).
StdIsZero(window, denom) ==
    IF denom = 1
    THEN Len(window) * SeqSumSq(window) - SeqSum(window) * SeqSum(window) = 0
    ELSE \E floats \in {SampleFloats(window, denom)} :
         \E mean \in {FloatMean(floats)} :
         \E devs \in {Deviations(floats, mean)} :
            \A j \in 1..Len(devs) : devs[j] = FloatZero

\* z_score > threshold_multiplier for samples with decimals:
\* z_score = abs(next_val - mean) / std, that is dev / sqrt(sumsq / m), is
\* compared as m * dev^2 > threshold^2 * sumsq, on the exact deviations
\* from the rounded mean. (The roundings of the squares, of their mean, of
\* the root and of the quotient change z_score by less than 2^-50 of its
\* value.)
ZScoreExceedsDecimal(window, next_val, threshold_multiplier, denom) ==
    \E floats \in {SampleFloats(window, denom)} :
    \E mean \in {FloatMean(floats)} :
    \E dev \in {Big(FloatAbsDiff(SampleFloats(<<next_val>>, denom)[1], mean))} :
    \E sumsq \in {BigSumSq(Deviations(floats, mean))} :
    \E scaled \in {BigMul(<<threshold_multiplier * threshold_multiplier>>, sumsq)} :
    \E square \in {BigMul(dev, dev)} :
    \E product \in {BigMul(<<Len(window)>>, square)} :
        BigLess(scaled, product)

\* z_score > threshold_multiplier for z_score = abs(next_val - mean) / std,
\* with mean = S/m and std = np.std(window) = sqrt(m*Q - S*S)/m (the
\* population deviation), S and Q the sum and the sum of squares of the m
\* window values: z_score = |m*next_val - S| / sqrt(m*Q - S*S). The caller
\* has excluded std = 0; the threshold is a non-negative integer.
ZScoreExceeds(window, next_val, threshold_multiplier) ==
    LET m == Len(window)
        S == SeqSum(window)
        Q == SeqSumSq(window)
        dev == m * next_val - S
    IN  dev * dev > threshold_multiplier * threshold_multiplier * (m * Q - S * S)

\* The body of "for i in range(window_size, len(values) - 1)".
SpikeCheck_sample(variable, data, window_size, threshold_multiplier, i) ==
    LET values == data.values
        window == DropNaN(SubSeq(values, i - window_size + 1, i))
        m == Len(window)
        next_val == values[i + 1]
    IN  IF m < 2 THEN <<>>
        ELSE IF StdIsZero(window, data.denom) THEN <<>>
        ELSE IF isnan(next_val) THEN <<>>
        ELSE IF IF data.denom = 1
                THEN ZScoreExceeds(window, next_val, threshold_multiplier)
                ELSE ZScoreExceedsDecimal(window, next_val,
                                          threshold_multiplier, data.denom)
        THEN << Flag(TimesOf(data)[i + 1], variable, "BAD", "SPIKE",
                     "spike_check", <<"Spike detected">>, i) >>
        ELSE <<>>

\* A variant of SpikeCheck_run: range(window_size, len(values)), the last
\* sample included.
SpikeCheck_run_to_end(variable, data, config) ==
    LET window_size ==
            TheValue(get_config_value(config, "spike_check", "window_size", Some(5)))
        threshold_multiplier ==
            TheValue(get_config_value(config, "spike_check",
                                      "threshold_multiplier", Some(3)))
        Body(i) == SpikeCheck_sample(variable, data, window_size,
                                     threshold_multiplier, i)
    IN  IF Len(data.values) < window_size THEN <<>>
        ELSE ForRange(window_size, Len(data.values), Body)

\* window_size is taken as a natural number (a size).
SpikeCheck_run(variable, data, config) ==
    LET window_size ==
            TheValue(get_config_value(config, "spike_check", "window_size", Some(5)))
        threshold_multiplier ==
            TheValue(get_config_value(config, "spike_check",
                                      "threshold_multiplier", Some(3)))
        Body(i) == SpikeCheck_sample(variable, data, window_size,
                                     threshold_multiplier, i)
    IN  IF Len(data.values) < window_size THEN <<>>
        ELSE ForRange(window_size, Len(data.values) - 1, Body)

(***************************************************************************)
(* qc/checks/stuck_sensor.py                                               *)
(***************************************************************************)
\* "j = i + 1; while j < len(values) and abs(values[j] - values[i]) <
\* tolerance: j += 1": the value of j when the loop ends. values[i] is not
\* NaN; abs(NaN - x) < tolerance is false.
RECURSIVE StuckSensor_extend(_, _, _, _)
StuckSensor_extend(values, i, j, tolerance) ==
    IF j < Len(values) /\ ~isnan(values[j + 1])
       /\ Abs(values[j + 1] - values[i + 1]) < tolerance
    THEN StuckSensor_extend(values, i, j + 1, tolerance)
    ELSE j

\* A variant of StuckSensor_flag_run: range(i + 1, j), the samples that
\* repeat the first one.
StuckSensor_flag_repeats(variable, data, i, j) ==
    LET Body(k) == << Flag(TimesOf(data)[k + 1], variable, "SUSPECT",
                           "STUCK_SENSOR", "stuck_sensor",
                           <<"Stuck sensor", j - i>>, k) >>
    IN  ForRange(i + 1, j, Body)

\* The flags of "for k in range(i, j)" for a run [i, j).
StuckSensor_flag_run(variable, data, i, j) ==
    LET Body(k) == << Flag(TimesOf(data)[k + 1], variable, "SUSPECT",
                           "STUCK_SENSOR", "stuck_sensor",
                           <<"Stuck sensor", j - i>>, k) >>
    IN  ForRange(i, j, Body)

\* "while i < len(values)": the flags appended from scan position i on.
RECURSIVE StuckSensor_scan(_, _, _, _, _)
StuckSensor_scan(variable, data, min_stuck_count, tolerance, i) ==
    IF i >= Len(data.values) THEN <<>>
    ELSE IF isnan(data.values[i + 1])
    THEN StuckSensor_scan(variable, data, min_stuck_count, tolerance, i + 1)
    ELSE LET j == StuckSensor_extend(data.values, i, i + 1, tolerance)
         IN  (IF j - i >= min_stuck_count
              THEN StuckSensor_flag_run(variable, data, i, j)
              ELSE <<>>)
             \o StuckSensor_scan(variable, data, min_stuck_count, tolerance, j)

StuckSensorCheck_run(variable, data, config) ==
    \* The default tolerance 1e-6 is below the spacing of the integer samples:
    \* abs(a - b) < 1e-6 is a = b, which is abs(a - b) < 1.
    LET min_stuck_count ==
            TheValue(get_config_value(config, "stuck_sensor",
                                      "min_stuck_count", Some(6)))
        tolerance ==
            TheValue(get_config_value(config, "stuck_sensor", "tolerance", Some(1)))
    IN  IF Len(data.values) < min_stuck_count THEN <<>>
        ELSE StuckSensor_scan(variable, data, min_stuck_count, tolerance, 0)

(***************************************************************************)
(* qc/checks/gap_check.py                                                  *)
(***************************************************************************)
\* np.diff(times)
Diffs(times) == [i \in 1..(Len(times) - 1) |-> times[i + 1] - times[i]]

\* The k-th smallest element of a non-empty sequence (k from 1).
KthSmallest(s, k) ==
    CHOOSE x \in {s[i] : i \in 1..Len(s)} :
        /\ Cardinality({i \in 1..Len(s) : s[i] < x}) < k
        /\ k <= Cardinality({i \in 1..Len(s) : s[i] <= x})

\* Twice np.median(s): the middle element, or the mean of the two middle ones.
TwiceMedian(s) ==
    LET m == Len(s)
    IN  IF m % 2 = 1
        THEN 2 * KthSmallest(s, (m + 1) \div 2)
        ELSE KthSmallest(s, m \div 2) + KthSmallest(s, m \div 2 + 1)

GapCheck_missing_sample(variable, data, i) ==
    IF isnan(data.values[i + 1])
    THEN << Flag(TimesOf(data)[i + 1], variable, "MISSING", "GAP", "gap_check",
                 <<"Missing value (NaN)">>, i) >>
    ELSE <<>>

\* A variant of GapCheck_gap_sample: diff >= median_diff * gap_multiplier.
GapCheck_gap_sample_inclusive(variable, data, gap_multiplier, i) ==
    LET times == TheValue(data.times)
        diff == times[i + 1] - times[i]
    IN  IF 2 * diff >= TwiceMedian(Diffs(times)) * gap_multiplier
        THEN << Flag(Some(times[i + 1]), variable, "SUSPECT", "GAP", "gap_check",
                     <<"Time gap detected", diff>>, i) >>
        ELSE <<>>

\* diff > median_diff * gap_multiplier, for the pair (i-1, i).
GapCheck_gap_sample(variable, data, gap_multiplier, i) ==
    LET times == TheValue(data.times)
        diff == times[i + 1] - times[i]
    IN  IF 2 * diff > TwiceMedian(Diffs(times)) * gap_multiplier
        THEN << Flag(Some(times[i + 1]), variable, "SUSPECT", "GAP", "gap_check",
                     <<"Time gap detected", diff>>, i) >>
        ELSE <<>>

GapCheck_run(variable, data, config) ==
    LET gap_multiplier ==
            TheValue(get_config_value(config, "gap_check", "gap_multiplier", Some(2)))
        Missing(i) == GapCheck_missing_sample(variable, data, i)
        Gap(i) == GapCheck_gap_sample(variable, data, gap_multiplier, i)
        n == Len(data.values)
    IN  IF data.times = None THEN <<>>
        ELSE ForRange(0, n, Missing)
             \o (IF n < 2 THEN <<>> ELSE ForRange(1, n, Gap))

(***************************************************************************)
(* qc/checks/ramp_rate.py                                                  *)
(***************************************************************************)
\* A rate is a fraction <<numerator, denominator>> with denominator > 0.
DEFAULT_RAMP_RATES(var_lower) ==
    CASE var_lower = "wind_speed" -> Some(<<5, 600>>)
      [] var_lower = "temperature" -> Some(<<5, 3600>>)
      [] var_lower = "pressure" -> Some(<<10, 3600>>)
      [] OTHER -> None

\* get_config_value(config, f"{variable}_max_rate", default_rate); a
\* configured rate is an integer.
RampRateCheck_max_rate(variable, config) ==
    LET configured ==
            get_config_value(config, "ramp_rate", variable \o "_max_rate", None)
    IN  IF configured # None
        THEN Some(<<TheValue(configured), 1>>)
        ELSE DEFAULT_RAMP_RATES(Lower(variable))

\* value_diff / time_diff > max_rate, for time_diff # 0.
RateExceeds(value_diff, time_diff, max_rate) ==
    IF time_diff > 0
    THEN value_diff * max_rate[2] > max_rate[1] * time_diff
    ELSE value_diff * max_rate[2] < max_rate[1] * time_diff

\* A variant of RampRateCheck_sample: a zero time delta is not skipped,
\* and the division of the floats gives inf (nan for 0/0).
RampRateCheck_sample_no_zero_skip(variable, data, max_rate, i) ==
    LET values == data.values
        times == TheValue(data.times)
        time_diff == times[i + 1] - times[i]
        value_diff == Abs(values[i + 1] - values[i])
    IN  IF isnan(values[i + 1]) \/ isnan(values[i]) THEN <<>>
        ELSE IF IF time_diff = 0 THEN value_diff > 0
                ELSE RateExceeds(value_diff, time_diff, max_rate)
        THEN << Flag(Some(times[i + 1]), variable, "SUSPECT", "RAMP_RATE",
                     "ramp_rate",
                     <<"Excessive ramp rate", value_diff, time_diff,
                       max_rate[1], max_rate[2]>>, i) >>
        ELSE <<>>

RampRateCheck_sample(variable, data, max_rate, i) ==
    LET values == data.values
        times == TheValue(data.times)
        time_diff == times[i + 1] - times[i]
        value_diff == Abs(values[i + 1] - values[i])
    IN  IF isnan(values[i + 1]) \/ isnan(values[i]) THEN <<>>
        ELSE IF time_diff = 0 THEN <<>>
        ELSE IF RateExceeds(value_diff, time_diff, max_rate)
        THEN << Flag(Some(times[i + 1]), variable, "SUSPECT", "RAMP_RATE",
                     "ramp_rate",
                     <<"Excessive ramp rate", value_diff, time_diff,
                       max_rate[1], max_rate[2]>>, i) >>
        ELSE <<>>

RampRateCheck_run(variable, data, config) ==
    LET max_rate == RampRateCheck_max_rate(variable, config)
        Body(i) == RampRateCheck_sample(variable, data, TheValue(max_rate), i)
    IN  IF max_rate = None THEN <<>>
        ELSE IF Len(data.values) < 2 THEN <<>>
        ELSE IF data.times = None THEN <<>>
        ELSE ForRange(1, Len(data.values), Body)

(***************************************************************************)
(* qc/checks/wind_direction_wrap.py                                        *)
(***************************************************************************)
\* "direction" in var_lower or "dir" in var_lower
ContainsDir(var_lower) == InStr("direction", var_lower) \/ InStr("dir", var_lower)

\* A variant of WindDirectionWrapCheck_is_applicable: the name is not
\* lower-cased.
WindDirectionWrapCheck_is_applicable_case_sensitive(variable, data) ==
    ContainsDir(variable)

WindDirectionWrapCheck_is_applicable(variable, data) ==
    ContainsDir(Lower(variable))

\* A variant of _angular_difference: the remainder has the sign of the
\* difference (math.fmod instead of %).
_angular_difference_fmod(angle1, angle2) ==
    LET diff == IF angle2 - angle1 < 0 THEN -((angle1 - angle2) % 360)
                ELSE (angle2 - angle1) % 360
    IN  IF diff > 180 THEN diff - 360 ELSE diff

\* The angles are whole degrees: their difference and its remainder are
\* exact in floats, and % is Python's, of the sign of the divisor.
_angular_difference(angle1, angle2) ==
    LET diff == (angle2 - angle1) % 360
    IN  IF diff > 180 THEN diff - 360 ELSE diff

WindDirectionWrapCheck_sample(variable, data, max_angular_change, i) ==
    LET values == data.values
        diff == _angular_difference(values[i], values[i + 1])
    IN  IF isnan(values[i + 1]) \/ isnan(values[i]) THEN <<>>
        ELSE IF Abs(diff) > max_angular_change
        THEN << Flag(TimesOf(data)[i + 1], variable, "SUSPECT", "DIRECTION_WRAP",
                     "wind_direction_wrap",
                     <<"Large direction change", diff, max_angular_change>>, i) >>
        ELSE <<>>

WindDirectionWrapCheck_run(variable, data, config) ==
    LET max_angular_change ==
            TheValue(get_config_value(config, "wind_direction_wrap",
                                      "max_angular_change", Some(180)))
        Body(i) == WindDirectionWrapCheck_sample(variable, data,
                                                 max_angular_change, i)
    IN  IF Len(data.values) < 2 THEN <<>>
        ELSE ForRange(1, Len(data.values), Body)

(***************************************************************************)
(* The checks as objects: a check is its name and the class that           *)
(* implements it. FailingCheck is a user-defined BaseCheck whose run       *)
(* raises.                                                                 *)
(***************************************************************************)
RangeCheck == [name |-> "range_check", impl |-> "RangeCheck"]

SpikeCheck == [name |-> "spike_check", impl |-> "SpikeCheck"]

StuckSensorCheck == [name |-> "stuck_sensor", impl |-> "StuckSensorCheck"]

GapCheck == [name |-> "gap_check", impl |-> "GapCheck"]

RampRateCheck == [name |-> "ramp_rate", impl |-> "RampRateCheck"]

WindDirectionWrapCheck ==
    [name |-> "wind_direction_wrap", impl |-> "WindDirectionWrapCheck"]

FailingCheck == [name |-> "failing_check", impl |-> "FailingCheck"]

\* check.is_applicable(variable, data): BaseCheck's default is True.
is_applicable(check, variable, data) ==
    IF check.impl = "WindDirectionWrapCheck"
    THEN WindDirectionWrapCheck_is_applicable(variable, data)
    ELSE TRUE

\* check.run(variable, data, config): the flags returned, or raised = TRUE
\* when the call raises instead of returning.
run(check, variable, data, config) ==
    CASE check.impl = "RangeCheck" ->
            [raised |-> FALSE, flags |-> RangeCheck_run(variable, data, config)]
      [] check.impl = "SpikeCheck" ->
            [raised |-> FALSE, flags |-> SpikeCheck_run(variable, data, config)]
      [] check.impl = "StuckSensorCheck" ->
            [raised |-> FALSE, flags |-> StuckSensorCheck_run(variable, data, config)]
      [] check.impl = "GapCheck" ->
            [raised |-> FALSE, flags |-> GapCheck_run(variable, data, config)]
      [] check.impl = "RampRateCheck" ->
            [raised |-> FALSE, flags |-> RampRateCheck_run(variable, data, config)]
      [] check.impl = "WindDirectionWrapCheck" ->
            [raised |-> FALSE,
             flags |-> WindDirectionWrapCheck_run(variable, data, config)]
      [] OTHER -> [raised |-> TRUE, flags |-> <<>>]

(***************************************************************************)
(* qc/registry.py: CheckRegistry._checks is an insertion-ordered dict,     *)
(* modelled as the sequence of its values (their names are its keys).      *)
(***************************************************************************)
Names(checks) == [i \in 1..Len(checks) |-> checks[i].name]

Contains(checks, name) == \E i \in 1..Len(checks) : checks[i].name = name

\* A variant of register: a new key goes to the front.
register_front(checks, check) ==
    IF \E i \in 1..Len(checks) : checks[i].name = check.name
    THEN [i \in 1..Len(checks) |->
            IF checks[i].name = check.name THEN check ELSE checks[i]]
    ELSE <<check>> \o checks

\* A variant of register: the key is deleted and inserted again, so that
\* an existing key goes to the end.
register_reinserted(checks, check) ==
    Append(SelectSeq(checks, LAMBDA c : c.name # check.name), check)

\* self._checks[check.name] = check: a new key goes to the end, an
\* existing key keeps its place and gets the new value.
register(checks, check) ==
    IF Contains(checks, check.name)
    THEN [i \in 1..Len(checks) |->
            IF checks[i].name = check.name THEN check ELSE checks[i]]
    ELSE Append(checks, check)

\* if name in self._checks: del self._checks[name]
unregister(checks, name) == SelectSeq(checks, LAMBDA c : c.name # name)

\* list(self._checks.keys())
list_checks(checks) == Names(checks)

\* self._checks.get(name)
get_check(checks, name) == {checks[i] : i \in {j \in 1..Len(checks) : checks[j].name = name}}

\* A variant of Lookup: [c for n, c in self._checks.items() if n in names].
Lookup_registry_order(checks, names) ==
    SelectSeq(checks, LAMBDA c : \E k \in 1..Len(names) : names[k] = c.name)

\* [self._checks[n] for n in names if n in self._checks]
RECURSIVE Lookup(_, _)
Lookup(checks, names) ==
    IF names = <<>> THEN <<>>
    ELSE LET found == get_check(checks, Head(names))
         IN  (IF found = None THEN <<>> ELSE << TheValue(found) >>)
             \o Lookup(checks, Tail(names))

\* names is None (all the checks) or Some(list of names).
get_checks(checks, names) ==
    IF names = None THEN checks ELSE Lookup(checks, TheValue(names))

(***************************************************************************)
(* models/report.py                                                        *)
(***************************************************************************)
\* metadata: dict = field(default_factory=dict)
NoMetadata == [k \in {} |-> ""]

\* The dataclass; flags is the empty list of default_factory.
QCReport(filepath, created_at, variables_checked, checks_run, metadata) ==
    [filepath |-> filepath, created_at |-> created_at,
     variables_checked |-> variables_checked, checks_run |-> checks_run,
     flags |-> <<>>, metadata |-> metadata]

\* A variant of total_flags: the flags a person has accepted are not
\* counted.
total_flags_auto_only(report_) ==
    Len(SelectSeq(report_.flags, LAMBDA f : f.auto_generated))

total_flags(report_) == Len(report_.flags)

\* dict(Counter(key(f) for f in flags)): a count for every key that occurs.
CounterOf(flags, key(_)) ==
    [k \in {key(flags[p]) : p \in 1..Len(flags)} |->
        Cardinality({p \in 1..Len(flags) : key(flags[p]) = k})]

flags_by_severity(report_) ==
    LET name(f) == EnumName(FlagSeverityValues, f.severity)
    IN  CounterOf(report_.flags, name)

flags_by_check(report_) ==
    LET name(f) == f.check_name
    IN  CounterOf(report_.flags, name)

\* [f for f in self.flags if f.variable == variable]
get_flags_for_variable(report_, variable) ==
    SelectSeq(report_.flags, LAMBDA f : f.variable = variable)

\* QCReport.to_dict; raised when the to_dict of a flag raises.
QCReport_to_dict(report_) ==
    IF \E p \in 1..Len(report_.flags) : Flag_to_dict(report_.flags[p]).raised
    THEN [raised |-> TRUE, value |-> <<>>]
    ELSE [raised |-> FALSE,
          value |-> [filepath |-> report_.filepath,
                     created_at |-> isoformat(report_.created_at),
                     variables_checked |-> report_.variables_checked,
                     checks_run |-> report_.checks_run,
                     total_flags |-> total_flags(report_),
                     flags_by_severity |-> flags_by_severity(report_),
                     flags_by_check |-> flags_by_check(report_),
                     flags |-> [p \in 1..Len(report_.flags) |->
                                    Flag_to_dict(report_.flags[p]).value],
                     metadata |-> report_.metadata]]

\* QCReport.from_dict, on a dictionary that QCReport.to_dict has made.
QCReport_from_dict(data) ==
    [QCReport(data.filepath, fromisoformat(data.created_at),
              data.variables_checked, data.checks_run, data.metadata)
        EXCEPT !.flags = [p \in 1..Len(data.flags) |->
                            Flag_from_dict(data.flags[p])]]

\* A variant of add_flag: self.flags.insert(0, flag).
add_flag_front(report, flag) == [report EXCEPT !.flags = <<flag>> \o @]

\* self.flags.append(flag)
add_flag(report, flag) == [report EXCEPT !.flags = Append(@, flag)]

RECURSIVE add_flags(_, _)
add_flags(report, flags) ==
    IF flags = <<>> THEN report
    ELSE add_flags(add_flag(report, Head(flags)), Tail(flags))

(***************************************************************************)
(* qc/scoring.py. A score is returned in thousandths: 1000 is 1.0.         *)
(***************************************************************************)
\* severity_weights.get(name, 0.0): the floats 0.0, 0.1, 0.5 and 0.3.
severity_weights(name) ==
    CASE name = "GOOD" -> FloatZero
      [] name = "SUSPECT" -> <<629248, 629145, 629145, 1>>
      [] name = "BAD" -> <<0, 0, 0, 8>>
      [] name = "MISSING" -> <<838656, 838860, 838860, 4>>
      [] OTHER -> FloatZero

\* sum(severity_weights.get(f.severity.name, 0.0) for f in flags): the
\* weights are added one after the other, in the order of the flags.
RECURSIVE total_penalty(_, _)
total_penalty(flags, acc) ==
    IF flags = <<>> THEN acc
    ELSE total_penalty(Tail(flags),
            FloatAdd(acc, severity_weights(
                            EnumName(FlagSeverityValues, Head(flags).severity))))

compute_quality_score(report_) ==
    IF total_flags(report_) = 0 THEN 1000
    ELSE LET max_penalty == Len(report_.flags)
             penalty == FloatDivInt(total_penalty(report_.flags, FloatZero),
                                    max_penalty)
         IN  IF max_penalty = 0 THEN 1000
             ELSE IF LessDigits(FloatOne, penalty) THEN 0
             ELSE Round3(FloatSub(FloatOne, penalty))

\* compute_variable_scores: QCReport is imported under TYPE_CHECKING only,
\* so that "QCReport(...)" raises NameError for the first variable that has
\* flags; the scores are returned when no checked variable has any.
compute_variable_scores(report_) ==
    IF \E k \in 1..Len(report_.variables_checked) :
            get_flags_for_variable(report_, report_.variables_checked[k]) # <<>>
    THEN [raised |-> TRUE, value |-> <<>>]
    ELSE [raised |-> FALSE,
          value |-> [v \in {report_.variables_checked[k] :
                               k \in 1..Len(report_.variables_checked)} |-> 1000]]

(***************************************************************************)
(* The datasets given to the engine: data_vars in their order, and one     *)
(* DataArray per variable, all on the dataset's time coordinate.           *)
(***************************************************************************)
Dataset(data_vars, arrays) == [data_vars |-> data_vars, arrays |-> arrays]

InDataset(dataset, var_name) == var_name \in DOMAIN dataset.arrays

TenMinutes == <<0, 600, 1200, 1800, 2400, 3000, 3600, 4200>>

MastDataset ==
    Dataset(<<"wind_speed", "wind_direction">>,
            [v \in {"wind_speed", "wind_direction"} |->
                IF v = "wind_speed"
                THEN DataArray(<<5, 5, 5, 5, 5, 5, 100, 5>>, Some(TenMinutes))
                ELSE DataArray(<<0, 90, 400, NaN, 10, 350, 350, 350>>,
                               Some(TenMinutes))])

UntimedDataset ==
    Dataset(<<"wind_speed", "WIND_DIR">>,
            [v \in {"wind_speed", "WIND_DIR"} |->
                IF v = "wind_speed"
                THEN DataArray(<<-1, 5, 80>>, None)
                ELSE DataArray(<<10, 200, NaN>>, None)])

Datasets == {MastDataset, UntimedDataset}

EmptyConfig == [c \in {} |-> 0]

StrictConfig ==
    [c \in {"range_check", "stuck_sensor", "wind_direction_wrap"} |->
        CASE c = "range_check" -> [k \in {"wind_speed_max"} |-> 4]
          [] c = "stuck_sensor" -> [k \in {"min_stuck_count"} |-> 2]
          [] OTHER -> [k \in {"max_angular_change"} |-> 45]]

EngineConfigs == {EmptyConfig, StrictConfig}

\* wind_direction is a variable of MastDataset and absent from UntimedDataset.
VarNames == {"wind_speed", "wind_direction"}

\* failing_check is an unregistered name until it is registered.
RequestedCheckNames == {"range_check", "stuck_sensor", "failing_check"}

SeqsUpTo(S, n) == UNION {[1..k -> S] : k \in 0..n}

\* An optional list argument: None, or Some(list).
OptLists(S, n) == {None} \cup {Some(l) : l \in SeqsUpTo(S, n)}

(***************************************************************************)
(* qc/engine.py: the engine, and the call in progress on it.               *)
(***************************************************************************)
VARIABLES
    config,         \* QCEngine.config
    registry,       \* QCEngine.registry._checks
    pc,             \* "idle", "running", "returned", "raised",
                    \* "single_returned", "single_raised"
    dataset,        \* the dataset argument of the call
    variables,      \* the variables argument of run
    checks,         \* the checks argument of run
    vars_to_check,  \* run's local
    checks_to_run,  \* run's local
    report,         \* run's local
    vi,             \* position of "for var_name in vars_to_check"
    ci,             \* position of "for check in checks_to_run"
    calls,          \* the (variable, check) pairs whose run was invoked
    result,         \* what the call returned: Some(report), or None
    single,         \* what run_single_check was asked and returned
    error,          \* the exception the call raised, or "none"
    previous,       \* what the preceding run of the same call returned, or None
    chk,            \* a check run on its own (SpecChecks)
    rep,            \* a report and what is computed from it (SpecReports)
    app,            \* the application state a QCController works on
    dm,             \* a DatasetManager of the QC tool
    reg             \* a CheckRegistry on its own, and the calls made on it

engine_vars ==
    <<config, registry, pc, dataset, variables, checks, vars_to_check,
      checks_to_run, report, vi, ci, calls, result, single, error, previous>>

vars == <<engine_vars, chk, rep, app, dm, reg>>

\* What datetime.now() returns when a report is created.
Clock == {43200}

NoReport == QCReport("", 0, <<>>, <<>>, NoMetadata)

NoRep ==
    [step |-> "none", report |-> NoReport, wire |-> None, restored |-> None,
     score |-> None, reordered |-> None, scores |-> None]

NoSingle == [check_name |-> "", variable |-> "", flags |-> <<>>]

\* runs counts the runs of the check on the series, and previous is what
\* the run before the last one returned.
NoChk ==
    [ran |-> "none", variable |-> "", data |-> DataArray(<<>>, None),
     config |-> EmptyConfig, flags |-> <<>>, runs |-> 0, previous |-> None]

\* No application: state.qc_report is None, and nothing was done.
NoApp ==
    [qc_report |-> None, ops |-> 0, last |-> "none", index |-> 0,
     before |-> None, removed |-> {}]

\* CheckRegistry(): no checks, and no call was made.
NoReg == [checks |-> <<>>, log |-> <<>>, before |-> <<>>]

\* No DatasetManager.
NoDm ==
    [time |-> <<>>, flags |-> <<>>, undo_stack |-> <<>>, returned |-> None,
     log |-> <<>>, snapshots |-> <<>>, initial |-> <<>>, before |-> <<>>]

\* QCEngine.__init__ and _register_default_checks
DefaultRegistry ==
    register(register(register(register(register(register(<<>>,
        RangeCheck), SpikeCheck), StuckSensorCheck), GapCheck),
        RampRateCheck), WindDirectionWrapCheck)

NoCall ==
    /\ dataset = UntimedDataset
    /\ variables = None
    /\ checks = None
    /\ vars_to_check = <<>>
    /\ checks_to_run = <<>>
    /\ report = NoReport
    /\ vi = 1
    /\ ci = 1
    /\ calls = <<>>
    /\ result = None
    /\ single = NoSingle
    /\ error = "none"
    /\ previous = None

Init ==
    /\ app = NoApp
    /\ dm = NoDm
    /\ reg = NoReg
    /\ config \in EngineConfigs
    /\ registry = DefaultRegistry
    /\ pc = "idle"
    /\ NoCall
    /\ chk = NoChk
    /\ rep = NoRep

\* vars_to_check = variables or list(dataset.data_vars)
ResolveVariables(ds, requested) ==
    IF requested = None \/ TheValue(requested) = <<>>
    THEN ds.data_vars
    ELSE TheValue(requested)

\* QCEngine.run up to the loop: the variables and the checks are resolved
\* and the report is created.
BeginRun(ds, requested_variables, requested_checks) ==
    /\ dataset' = ds
    /\ variables' = requested_variables
    /\ checks' = requested_checks
    /\ vars_to_check' = ResolveVariables(ds, requested_variables)
    /\ checks_to_run' = get_checks(registry, requested_checks)
    /\ \E now \in Clock :
         report' = QCReport("unknown", now, vars_to_check',
                            Names(checks_to_run'), NoMetadata)
    /\ vi' = 1
    /\ ci' = 1
    /\ calls' = <<>>
    /\ result' = None
    /\ single' = NoSingle
    /\ error' = "none"
    /\ pc' = "running"
    /\ UNCHANGED <<config, registry, chk, rep, app, dm, reg>>

\* engine.run(ds, requested_variables, requested_checks)
StartRun(ds, requested_variables, requested_checks) ==
    /\ pc = "idle"
    /\ previous' = None
    /\ BeginRun(ds, requested_variables, requested_checks)

\* The caller keeps the report and calls run once more, on the same engine
\* and with the same arguments.
RunAgain ==
    /\ pc = "returned"
    /\ previous = None
    /\ previous' = result
    /\ BeginRun(dataset, variables, checks)

\* A variant of continue_absent: break instead of continue.
break_absent(names, i) == Len(names) + 1

\* "if var_name not in dataset: continue": the next loop position.
continue_absent(names, i) == i + 1

SkipAbsentVariable ==
    /\ pc = "running"
    /\ vi <= Len(vars_to_check)
    /\ ~InDataset(dataset, vars_to_check[vi])
    /\ vi' = continue_absent(vars_to_check, vi)
    /\ ci' = 1
    /\ UNCHANGED <<config, registry, pc, dataset, variables, checks,
                   vars_to_check, checks_to_run, report, calls, result,
                   single, error, previous, chk, rep, app, dm, reg>>

\* The inner loop over checks_to_run is exhausted for this variable.
NextVariable ==
    /\ pc = "running"
    /\ vi <= Len(vars_to_check)
    /\ InDataset(dataset, vars_to_check[vi])
    /\ ci > Len(checks_to_run)
    /\ vi' = vi + 1
    /\ ci' = 1
    /\ UNCHANGED <<config, registry, pc, dataset, variables, checks,
                   vars_to_check, checks_to_run, report, calls, result,
                   single, error, previous, chk, rep, app, dm, reg>>

\* "if check.is_applicable(var_name, data_array)" is false.
SkipInapplicable ==
    /\ pc = "running"
    /\ vi <= Len(vars_to_check)
    /\ InDataset(dataset, vars_to_check[vi])
    /\ ci <= Len(checks_to_run)
    /\ ~is_applicable(checks_to_run[ci], vars_to_check[vi],
                      dataset.arrays[vars_to_check[vi]])
    /\ ci' = ci + 1
    /\ UNCHANGED <<config, registry, pc, dataset, variables, checks,
                   vars_to_check, checks_to_run, report, vi, calls, result,
                   single, error, previous, chk, rep, app, dm, reg>>

\* A variant of after_check: the exception is caught and the loop goes on.
after_check_caught(outcome) == "running"

\* Where run is after check.run: an exception of the check is not caught.
after_check(outcome) == IF outcome.raised THEN "raised" ELSE "running"

\* "flags = check.run(var_name, data_array, self.config)" and the loop
\* that adds them to the report, or the exception leaving run.
RunCheck ==
    /\ pc = "running"
    /\ vi <= Len(vars_to_check)
    /\ InDataset(dataset, vars_to_check[vi])
    /\ ci <= Len(checks_to_run)
    /\ LET var_name == vars_to_check[vi]
           check == checks_to_run[ci]
           data_array == dataset.arrays[var_name]
           outcome == run(check, var_name, data_array, config)
       IN  /\ is_applicable(check, var_name, data_array)
           /\ calls' = Append(calls, <<var_name, check.name>>)
           /\ pc' = after_check(outcome)
           /\ error' = IF pc' = "raised" THEN "CheckError" ELSE "none"
           /\ report' = add_flags(report, outcome.flags)
    /\ ci' = ci + 1
    /\ UNCHANGED <<config, registry, dataset, variables, checks,
                   vars_to_check, checks_to_run, vi, result, single, previous,
                   chk, rep, app, dm, reg>>

\* return report
ReturnReport ==
    /\ pc = "running"
    /\ vi > Len(vars_to_check)
    /\ pc' = "returned"
    /\ result' = Some(report)
    /\ UNCHANGED <<config, registry, dataset, variables, checks,
                   vars_to_check, checks_to_run, report, vi, ci, calls,
                   single, error, previous, chk, rep, app, dm, reg>>

\* A variant of run_single_check: the check is run only if is_applicable.
run_single_check_gated(checks_, config_, check_name, ds, variable) ==
    LET check == get_check(checks_, check_name)
    IN  IF check = None
        THEN [error |-> "ValueError: Unknown check", flags |-> <<>>,
              calls |-> <<>>]
        ELSE IF ~InDataset(ds, variable)
        THEN [error |-> "KeyError", flags |-> <<>>, calls |-> <<>>]
        ELSE IF ~is_applicable(TheValue(check), variable, ds.arrays[variable])
        THEN [error |-> "none", flags |-> <<>>, calls |-> <<>>]
        ELSE LET outcome == run(TheValue(check), variable,
                                ds.arrays[variable], config_)
             IN  [error |-> IF outcome.raised THEN "CheckError" ELSE "none",
                  flags |-> outcome.flags,
                  calls |-> << <<variable, check_name>> >>]

\* QCEngine.run_single_check: what it raises or returns, and the runs it
\* invokes.
run_single_check(checks_, config_, check_name, ds, variable) ==
    LET check == get_check(checks_, check_name)
    IN  IF check = None
        THEN [error |-> "ValueError: Unknown check", flags |-> <<>>,
              calls |-> <<>>]
        ELSE IF ~InDataset(ds, variable)
        THEN [error |-> "KeyError", flags |-> <<>>, calls |-> <<>>]
        ELSE LET outcome == run(TheValue(check), variable,
                                ds.arrays[variable], config_)
             IN  [error |-> IF outcome.raised THEN "CheckError" ELSE "none",
                  flags |-> outcome.flags,
                  calls |-> << <<variable, check_name>> >>]

RunSingleCheck(check_name, ds, variable) ==
    /\ pc = "idle"
    /\ LET r == run_single_check(registry, config, check_name, ds, variable)
       IN  /\ single' = [check_name |-> check_name, variable |-> variable,
                         flags |-> r.flags]
           /\ error' = r.error
           /\ calls' = r.calls
           /\ pc' = IF r.error = "none" THEN "single_returned" ELSE "single_raised"
    /\ dataset' = ds
    /\ variables' = None
    /\ checks' = None
    /\ vars_to_check' = <<>>
    /\ checks_to_run' = <<>>
    /\ report' = NoReport
    /\ vi' = 1
    /\ ci' = 1
    /\ result' = None
    /\ previous' = None
    /\ UNCHANGED <<config, registry, chk, rep, app, dm, reg>>

\* The caller is done with what the call returned or raised: the engine
\* keeps no per-call state, and is ready for the next call.
CallerDone ==
    /\ pc \in {"returned", "raised", "single_returned", "single_raised"}
    /\ pc' = "idle"
    /\ dataset' = UntimedDataset
    /\ variables' = None
    /\ checks' = None
    /\ vars_to_check' = <<>>
    /\ checks_to_run' = <<>>
    /\ report' = NoReport
    /\ vi' = 1
    /\ ci' = 1
    /\ calls' = <<>>
    /\ result' = None
    /\ single' = NoSingle
    /\ error' = "none"
    /\ previous' = None
    /\ UNCHANGED <<config, registry, chk, rep, app, dm, reg>>

\* engine.registry.register(check)
Register(check) ==
    /\ pc = "idle"
    /\ registry' = register(registry, check)
    /\ UNCHANGED <<config, pc, dataset, variables, checks, vars_to_check,
                   checks_to_run, report, vi, ci, calls, result, single,
                   error, previous, chk, rep, app, dm, reg>>

\* engine.registry.unregister(name)
Unregister(name) ==
    /\ pc = "idle"
    /\ registry' = unregister(registry, name)
    /\ UNCHANGED <<config, pc, dataset, variables, checks, vars_to_check,
                   checks_to_run, report, vi, ci, calls, result, single,
                   error, previous, chk, rep, app, dm, reg>>

RegisteredLater == {FailingCheck, RangeCheck}

AllCheckNames ==
    {"range_check", "spike_check", "stuck_sensor", "gap_check", "ramp_rate",
     "wind_direction_wrap", "failing_check", "no_such_check"}

Next ==
    \/ \E ds \in Datasets, vs \in OptLists(VarNames, MaxVarList),
          cs \in OptLists(RequestedCheckNames, MaxCheckList) :
            StartRun(ds, vs, cs)
    \/ SkipAbsentVariable
    \/ NextVariable
    \/ SkipInapplicable
    \/ RunCheck
    \/ ReturnReport
    \/ RunAgain
    \/ \E name \in AllCheckNames, ds \in Datasets, v \in VarNames :
            RunSingleCheck(name, ds, v)
    \/ \E check \in RegisteredLater : Register(check)
    \/ \E name \in {"range_check", "failing_check"} : Unregister(name)
    \/ CallerDone

Spec == Init /\ [][Next]_vars

(***************************************************************************)
(* A CheckRegistry on its own: checks are registered and unregistered,     *)
(* MaxRegOps times at most; reg.log keeps the calls in their order, and    *)
(* reg.before the checks as they were before the last call.                *)
(***************************************************************************)
MaxRegOps == 4

\* A check of a user that takes the name of a built-in one.
CustomRangeCheck == [name |-> "range_check", impl |-> "CustomRangeCheck"]

RegisteredChecks == {RangeCheck, CustomRangeCheck, SpikeCheck}

UnregisteredNames == {"range_check", "spike_check", "no_such_check"}

InitRegistry ==
    /\ reg = NoReg
    /\ app = NoApp
    /\ dm = NoDm
    /\ config = EmptyConfig
    /\ registry = DefaultRegistry
    /\ pc = "idle"
    /\ NoCall
    /\ chk = NoChk
    /\ rep = NoRep

\* registry.register(check)
RegistryRegister ==
    /\ Len(reg.log) < MaxRegOps
    /\ \E check \in RegisteredChecks :
         reg' = [checks |-> register(reg.checks, check),
                 log |-> Append(reg.log, [op |-> "register", name |-> check.name,
                                          check |-> check]),
                 before |-> reg.checks]
    /\ UNCHANGED <<engine_vars, chk, rep, app, dm>>

\* registry.unregister(name)
RegistryUnregister ==
    /\ Len(reg.log) < MaxRegOps
    /\ \E name \in UnregisteredNames :
         reg' = [checks |-> unregister(reg.checks, name),
                 log |-> Append(reg.log, [op |-> "unregister", name |-> name,
                                          check |-> [name |-> name, impl |-> ""]]),
                 before |-> reg.checks]
    /\ UNCHANGED <<engine_vars, chk, rep, app, dm>>

NextRegistry ==
    \/ RegistryRegister
    \/ RegistryUnregister

SpecRegistry == InitRegistry /\ [][NextRegistry]_vars

(***************************************************************************)
(* The checks on their own: one check is run on one series. The inputs     *)
(* are all the series of at most MaxLen samples over SampleValues, with    *)
(* and without a time coordinate, and the two scenario series of the       *)
(* tests; the configurations are those of CheckSetups.                     *)
(***************************************************************************)
SampleValues == {NaN, 0, 1, 2}

\* Ten samples, 100 at index 8.
ScenarioA == <<0, 0, 0, 0, 0, 0, 0, 0, 100, 0>>

\* Ten constant samples.
ScenarioB == <<5, 5, 5, 5, 5, 5, 5, 5, 5, 5>>

\* Seven samples, the one in the middle missing.
ScenarioE == <<5, 5, 5, NaN, 5, 5, 5>>

\* Seven samples: a window of five with three 0 and two 1, then 2.
ScenarioF == <<0, 0, 0, 1, 1, 2, 0>>

SeriesInputs ==
    SeqsUpTo(SampleValues, MaxLen)
        \cup {ScenarioA, ScenarioB, ScenarioE, ScenarioF}

\* A ten-minute time coordinate for n samples.
RegularTimes(n) == [i \in 1..n |-> 600 * (i - 1)]

OneCheckConfig(check_name, settings) == [c \in {check_name} |-> settings]

RangeSetups ==
    {[variable |-> "wind_speed", config |-> EmptyConfig],
     [variable |-> "Wind_Speed", config |-> EmptyConfig],
     [variable |-> "depth", config |-> EmptyConfig],
     [variable |-> "wind_speed",
      config |-> OneCheckConfig("range_check",
                    [k \in {"wind_speed_min", "wind_speed_max"} |-> 1])],
     [variable |-> "wind_speed",
      config |-> OneCheckConfig("range_check", [k \in {"wind_speed_min"} |-> 1])],
     [variable |-> "depth",
      config |-> OneCheckConfig("range_check", [k \in {"depth_max"} |-> 1])]}

SpikeSetups ==
    {[variable |-> "wind_speed",
      config |-> OneCheckConfig("spike_check",
                    [k \in {"window_size", "threshold_multiplier"} |->
                        IF k = "window_size" THEN w ELSE t])] :
        w \in 0..(MaxLen - 1), t \in {2, 3}}

StuckSetups ==
    {[variable |-> "wind_speed",
      config |-> OneCheckConfig("stuck_sensor",
                    [k \in {"min_stuck_count", "tolerance"} |->
                        IF k = "min_stuck_count" THEN c ELSE t])] :
        c \in 1..3, t \in {1, 2}}

CheckSetups == RangeSetups \cup SpikeSetups \cup StuckSetups

\* The series with an irregular time coordinate: the samples are missing
\* or not, and the time from one sample to the next is a ten-minute step,
\* five of them, or none (a repeated timestamp).
GapSamples == {NaN, 0}

TimeSteps == {0, 600, 3000}

\* The time coordinate that starts at 0 and advances by these steps.
TimesFrom(steps) ==
    [i \in 1..(Len(steps) + 1) |-> SeqSum(SubSeq(steps, 1, i - 1))]

\* Ten samples an hour apart, but for the step to index 6, of five hours.
ScenarioC ==
    DataArray(ScenarioB,
              Some(TimesFrom(<<3600, 3600, 3600, 3600, 3600, 18000, 3600,
                               3600, 3600>>)))

IrregularSeries ==
    {DataArray(values, Some(TimesFrom(steps))) :
        values \in SeqsUpTo(GapSamples, MaxLen),
        steps \in SeqsUpTo(TimeSteps, MaxLen - 1)}

GapSeries ==
    {d \in IrregularSeries :
        Len(d.values) >= 1 /\ Len(d.values) = Len(TheValue(d.times))}
    \cup {ScenarioC}

GapSetups ==
    {[variable |-> "wind_speed", config |-> EmptyConfig]}
    \cup {[variable |-> "wind_speed",
           config |-> OneCheckConfig("gap_check",
                         [k \in {"gap_multiplier"} |-> m])] : m \in 1..3}

\* The series of samples with decimals, which are given to SpikeCheck: the
\* samples are missing, 0.1 or 0.2.
DecimalSamples == {NaN, 1, 2}

\* Seven samples: 0.11 five times, then 0.12 and 0.11.
ScenarioD ==
    DecimalArray(<<11, 11, 11, 11, 11, 12, 11>>, Some(RegularTimes(7)), 100)

DecimalSeries ==
    {DecimalArray(values, Some(RegularTimes(Len(values))), 10) :
        values \in SeqsUpTo(DecimalSamples, MaxLen + 1)}
    \cup {ScenarioD}

DecimalSetups ==
    {[variable |-> "wind_speed", config |-> EmptyConfig]}
    \cup {[variable |-> "wind_speed",
           config |-> OneCheckConfig("spike_check",
                         [k \in {"window_size", "threshold_multiplier"} |->
                             IF k = "window_size" THEN 3 ELSE t])] :
            t \in {2, 3}}

\* The series of wind directions: whole degrees, below 0 and above 360
\* among them, or missing.
MaxDirLen == 2

DirectionSamples ==
    {NaN, -350, -190, -180, -10, 0, 10, 180, 190, 350, 370, 540, 720}

DirectionSeries ==
    {DataArray(values, Some(RegularTimes(Len(values)))) :
        values \in SeqsUpTo(DirectionSamples, MaxDirLen)}

DirectionSetups ==
    {[variable |-> "wind_direction", config |-> EmptyConfig]}
    \cup {[variable |-> "wind_direction",
           config |-> OneCheckConfig("wind_direction_wrap",
                         [k \in {"max_angular_change"} |-> m])] :
            m \in {90, 179, 180}}

\* The series given to RampRateCheck: the samples are missing, 0, 5 or 6,
\* and the time from one sample to the next is ten minutes forward, ten
\* minutes back, or none.
MaxRampLen == 3

RampSamples == {NaN, 0, 5, 6}

RampSteps == {-600, 0, 600}

RampSeries ==
    {d \in {DataArray(values, Some(TimesFrom(steps))) :
                values \in SeqsUpTo(RampSamples, MaxRampLen),
                steps \in SeqsUpTo(RampSteps, MaxRampLen - 1)} :
        Len(d.values) >= 1 /\ Len(d.values) = Len(TheValue(d.times))}

RampSetups ==
    {[variable |-> "wind_speed", config |-> EmptyConfig],
     [variable |-> "Wind_Speed", config |-> EmptyConfig],
     [variable |-> "depth", config |-> EmptyConfig],
     [variable |-> "depth",
      config |-> OneCheckConfig("ramp_rate", [k \in {"depth_max_rate"} |-> 0])]}

InitChecks ==
    /\ app = NoApp
    /\ dm = NoDm
    /\ reg = NoReg
    /\ config = EmptyConfig
    /\ registry = DefaultRegistry
    /\ pc = "idle"
    /\ NoCall
    /\ rep = NoRep
    /\ \/ \E values \in SeriesInputs, timed \in BOOLEAN, setup \in CheckSetups :
            chk = [ran |-> "none", variable |-> setup.variable,
                   data |-> DataArray(values,
                                      IF timed THEN Some(RegularTimes(Len(values)))
                                      ELSE None),
                   config |-> setup.config, flags |-> <<>>, runs |-> 0,
                   previous |-> None]
       \/ \E series \in GapSeries, setup \in GapSetups :
            chk = [ran |-> "none", variable |-> setup.variable,
                   data |-> series, config |-> setup.config, flags |-> <<>>,
                   runs |-> 0, previous |-> None]
       \/ \E series \in DecimalSeries, setup \in DecimalSetups :
            chk = [ran |-> "none", variable |-> setup.variable,
                   data |-> series, config |-> setup.config, flags |-> <<>>,
                   runs |-> 0, previous |-> None]
       \/ \E series \in RampSeries, setup \in RampSetups :
            chk = [ran |-> "none", variable |-> setup.variable,
                   data |-> series, config |-> setup.config, flags |-> <<>>,
                   runs |-> 0, previous |-> None]
       \/ \E series \in DirectionSeries, setup \in DirectionSetups :
            chk = [ran |-> "none", variable |-> setup.variable,
                   data |-> series, config |-> setup.config, flags |-> <<>>,
                   runs |-> 0, previous |-> None]

\* A variant of RunOne: the check keeps its flags from one run to the next.
RunOne_accumulating(check) ==
    [chk EXCEPT !.ran = check.name,
                !.runs = @ + 1,
                !.previous = IF chk.runs = 0 THEN None ELSE Some(chk.flags),
                !.flags = chk.flags
                            \o run(check, chk.variable, chk.data, chk.config).flags]

\* A variant of RunOne: the check drops the missing samples of the series
\* it is given.
RunOne_in_place(check) ==
    [chk EXCEPT !.ran = check.name,
                !.runs = @ + 1,
                !.previous = IF chk.runs = 0 THEN None ELSE Some(chk.flags),
                !.flags = run(check, chk.variable, chk.data, chk.config).flags,
                !.data = DataArray(DropNaN(chk.data.values), chk.data.times)]

\* The record of check.run(chk.variable, chk.data, chk.config): the series,
\* the variable name and the configuration are read, the flags are the
\* list the run returns.
RunOne(check) ==
    [chk EXCEPT !.ran = check.name,
                !.runs = @ + 1,
                !.previous = IF chk.runs = 0 THEN None ELSE Some(chk.flags),
                !.flags = run(check, chk.variable, chk.data, chk.config).flags]

\* The check has not been run on the series, or the same check has been
\* run on it once; a series of samples with decimals is for SpikeCheck.
Runnable(check) ==
    /\ chk.data.denom = 1 \/ check.name = "spike_check"
    /\ \/ chk.ran = "none"
       \/ chk.ran = check.name /\ chk.runs = 1

RunRangeCheck ==
    /\ Runnable(RangeCheck)
    /\ chk' = RunOne(RangeCheck)
    /\ UNCHANGED <<engine_vars, rep, app, dm, reg>>

RunSpikeCheck ==
    /\ Runnable(SpikeCheck)
    /\ chk' = RunOne(SpikeCheck)
    /\ UNCHANGED <<engine_vars, rep, app, dm, reg>>

RunStuckSensorCheck ==
    /\ Runnable(StuckSensorCheck)
    /\ chk' = RunOne(StuckSensorCheck)
    /\ UNCHANGED <<engine_vars, rep, app, dm, reg>>

RunGapCheck ==
    /\ Runnable(GapCheck)
    /\ chk' = RunOne(GapCheck)
    /\ UNCHANGED <<engine_vars, rep, app, dm, reg>>

RunRampRateCheck ==
    /\ Runnable(RampRateCheck)
    /\ chk' = RunOne(RampRateCheck)
    /\ UNCHANGED <<engine_vars, rep, app, dm, reg>>

RunWindDirectionWrapCheck ==
    /\ Runnable(WindDirectionWrapCheck)
    /\ chk' = RunOne(WindDirectionWrapCheck)
    /\ UNCHANGED <<engine_vars, rep, app, dm, reg>>

NextChecks ==
    \/ RunRangeCheck
    \/ RunSpikeCheck
    \/ RunStuckSensorCheck
    \/ RunGapCheck
    \/ RunRampRateCheck
    \/ RunWindDirectionWrapCheck

SpecChecks == InitChecks /\ [][NextChecks]_vars

(***************************************************************************)
(* qc_tool/data_model.py: a DatasetManager with one dataset, whose         *)
(* variable wind_speed has the dimensions (time, height). dm.time is the   *)
(* time coordinate, dm.flags the array wind_speed_qcflag, as the column of *)
(* each height, and dm.undo_stack the list of UndoOperation records. A     *)
(* series is a SeriesIdentifier: its series_key selects one height, or is  *)
(* empty and selects the whole array.                                      *)
(***************************************************************************)
Heights == {10, 50}

SeriesIdentifier(dataset_id, variable_name, series_key) ==
    [dataset_id |-> dataset_id, variable_name |-> variable_name,
     series_key |-> series_key]

\* The columns of the array that sel(**sel_dict) keeps.
SelectedHeights(series_id) ==
    IF series_id.series_key = <<>> THEN Heights
    ELSE {series_id.series_key[k][2] : k \in 1..Len(series_id.series_key)}

\* np.where((time >= time_start) & (time <= time_end))[0], 0-based.
MaskIndices(time, time_start, time_end) ==
    {i \in 0..(Len(time) - 1) :
        time[i + 1] >= time_start /\ time[i + 1] <= time_end}

Min(S) == CHOOSE x \in S : \A y \in S : x <= y

Max(S) == CHOOSE x \in S : \A y \in S : x >= y

\* qc_data[idx] = values, for the slice [start, stop) of time and the
\* selected heights; values has a column for every selected height.
AssignSlice(flags, heights, start, stop, values) ==
    [h \in DOMAIN flags |->
        IF h \in heights
        THEN [p \in 1..Len(flags[h]) |->
                IF start < p /\ p <= stop THEN values[h][p - start]
                ELSE flags[h][p]]
        ELSE flags[h]]

\* A variant of apply_qc_flag: previous_values is kept without copy(), a
\* view of the array, which shows the new flag values.
apply_qc_flag_no_copy(d, series_id, time_start, time_end, flag_value) ==
    LET indices == MaskIndices(d.time, time_start, time_end)
        start == Min(indices)
        stop == Max(indices) + 1
        heights == SelectedHeights(series_id)
        filled == [h \in heights |-> [p \in 1..(stop - start) |-> flag_value]]
    IN  IF indices = {} THEN d
        ELSE [d EXCEPT
                !.undo_stack =
                    Append(@, [series_id |-> series_id,
                               time_slice |-> <<start, stop>>,
                               previous_values |-> filled,
                               coord_slices |-> heights]),
                !.flags = AssignSlice(@, heights, start, stop, filled)]

\* DatasetManager.apply_qc_flag, as the manager it leaves.
apply_qc_flag(d, series_id, time_start, time_end, flag_value) ==
    LET indices == MaskIndices(d.time, time_start, time_end)
        start == Min(indices)
        stop == Max(indices) + 1
        heights == SelectedHeights(series_id)
        current_qc == [h \in heights |-> SubSeq(d.flags[h], start + 1, stop)]
        filled == [h \in heights |-> [p \in 1..(stop - start) |-> flag_value]]
    IN  IF indices = {} THEN d
        ELSE [d EXCEPT
                !.undo_stack =
                    Append(@, [series_id |-> series_id,
                               time_slice |-> <<start, stop>>,
                               previous_values |-> current_qc,
                               coord_slices |-> heights]),
                !.flags = AssignSlice(@, heights, start, stop, filled)]

\* DatasetManager.undo_last, as the manager it leaves; returned is what
\* the call returns.
undo_last(d) ==
    IF d.undo_stack = <<>> THEN [d EXCEPT !.returned = None]
    ELSE LET undo_op == d.undo_stack[Len(d.undo_stack)]
         IN  [d EXCEPT
                !.undo_stack = SubSeq(@, 1, Len(@) - 1),
                !.flags = AssignSlice(@, undo_op.coord_slices,
                                      undo_op.time_slice[1],
                                      undo_op.time_slice[2],
                                      undo_op.previous_values),
                !.returned = Some(undo_op.series_id)]

(***************************************************************************)
(* A DatasetManager at work: flags are applied and undone, MaxDmOps times  *)
(* at most. dm.log are the calls, dm.initial the flags at the start,       *)
(* dm.before the flags before the last call, and dm.snapshots the flags as *)
(* they were before each apply that is not undone yet and that selected    *)
(* samples, with the series of that apply.                                 *)
(***************************************************************************)
MaxDmOps == 4

SeriesInputs_dm ==
    {SeriesIdentifier("mast.nc", "wind_speed", <<<<"height", h>>>>) :
        h \in Heights}
    \cup {SeriesIdentifier("mast.nc", "wind_speed", <<>>)}

\* The time ranges of the calls: two that overlap, and one between two
\* samples, which selects none.
TimeRanges == {<<0, 600>>, <<600, 1200>>, <<700, 900>>}

\* The time coordinate is in order, or not.
TimeCoordinates == {<<0, 600, 1200>>, <<0, 1200, 600>>}

InitDm ==
    /\ app = NoApp
    /\ reg = NoReg
    /\ config = EmptyConfig
    /\ registry = DefaultRegistry
    /\ pc = "idle"
    /\ NoCall
    /\ chk = NoChk
    /\ rep = NoRep
    /\ \E time \in TimeCoordinates :
         LET flags == [h \in Heights |->
                        IF h = 10 THEN <<0, 3, 0>> ELSE <<0, 0, 0>>]
         IN  dm = [NoDm EXCEPT !.time = time, !.flags = flags,
                               !.initial = flags, !.before = flags]

\* manager.apply_qc_flag(series_id, time_start, time_end, flag_value); the
\* flag values of the calls are 1, 2, ... in turn.
ApplyQcFlag ==
    /\ Len(dm.log) < MaxDmOps
    /\ \E series_id \in SeriesInputs_dm, range \in TimeRanges :
         LET after == apply_qc_flag(dm, series_id, range[1], range[2],
                                    Len(dm.log) + 1)
         IN  dm' = [after EXCEPT
                      !.log = Append(@, "apply"),
                      !.before = dm.flags,
                      !.returned = None,
                      !.snapshots =
                        IF MaskIndices(dm.time, range[1], range[2]) = {}
                        THEN @
                        ELSE Append(@, [flags |-> dm.flags,
                                        series_id |-> series_id])]
    /\ UNCHANGED <<engine_vars, chk, rep, app, reg>>

\* manager.undo_last()
UndoLast ==
    /\ Len(dm.log) < MaxDmOps
    /\ dm' = [undo_last(dm) EXCEPT
                !.log = Append(@, "undo"),
                !.before = dm.flags,
                !.snapshots = SubSeq(@, 1, Len(@) - 1)]
    /\ UNCHANGED <<engine_vars, chk, rep, app, reg>>

NextDm ==
    \/ ApplyQcFlag
    \/ UndoLast

SpecDm == InitDm /\ [][NextDm]_vars

(***************************************************************************)
(* StuckSensorCheck.run step by step: chk.at is the place in the code      *)
(* ("outer" is the test of "while i < len(values)", "inner" the test of    *)
(* the while of j), chk.i and chk.j are the two indices, chk.examined are  *)
(* the runs [i, j) the scan has closed, and chk.flags the list "flags".    *)
(***************************************************************************)
\* The settings of the scan: min_stuck_count and tolerance of StuckSetups,
\* and values of 0 and below.
ScanSetups ==
    StuckSetups
    \cup {[variable |-> "wind_speed",
           config |-> OneCheckConfig("stuck_sensor",
                         [k \in {"min_stuck_count", "tolerance"} |->
                             IF k = "min_stuck_count" THEN c ELSE t])] :
            c \in {-1, 0, 2}, t \in {-1, 0}}

InitScan ==
    /\ app = NoApp
    /\ dm = NoDm
    /\ reg = NoReg
    /\ config = EmptyConfig
    /\ registry = DefaultRegistry
    /\ pc = "idle"
    /\ NoCall
    /\ rep = NoRep
    /\ \E values \in SeqsUpTo(SampleValues, MaxLen), setup \in ScanSetups :
         chk = [at |-> "called", variable |-> setup.variable,
                data |-> DataArray(values, None), config |-> setup.config,
                min_stuck_count |->
                    TheValue(get_config_value(setup.config, "stuck_sensor",
                                              "min_stuck_count", Some(6))),
                tolerance |->
                    TheValue(get_config_value(setup.config, "stuck_sensor",
                                              "tolerance", Some(1))),
                i |-> 0, j |-> 0, flags |-> <<>>, examined |-> <<>>]

\* A variant of AfterRun: the scan goes on from the last sample of a run
\* of several samples.
AfterRun_last_sample(i, j) == IF j > i + 1 THEN j - 1 ELSE j

\* "i = j"
AfterRun(i, j) == j

\* "if len(values) < min_stuck_count: return flags", or "i = 0"
ScanEnter ==
    /\ chk.at = "called"
    /\ chk' = IF Len(chk.data.values) < chk.min_stuck_count
              THEN [chk EXCEPT !.at = "returned"]
              ELSE [chk EXCEPT !.at = "outer", !.i = 0]
    /\ UNCHANGED <<engine_vars, rep, app, dm, reg>>

\* "if np.isnan(values[i]): i += 1; continue"
ScanSkipNaN ==
    /\ chk.at = "outer"
    /\ chk.i < Len(chk.data.values)
    /\ isnan(chk.data.values[chk.i + 1])
    /\ chk' = [chk EXCEPT !.i = @ + 1]
    /\ UNCHANGED <<engine_vars, rep, app, dm, reg>>

\* "j = i + 1"
ScanBegin ==
    /\ chk.at = "outer"
    /\ chk.i < Len(chk.data.values)
    /\ ~isnan(chk.data.values[chk.i + 1])
    /\ chk' = [chk EXCEPT !.at = "inner", !.j = chk.i + 1]
    /\ UNCHANGED <<engine_vars, rep, app, dm, reg>>

\* "j < len(values) and abs(values[j] - values[i]) < tolerance"
ScanGoesOn ==
    /\ chk.j < Len(chk.data.values)
    /\ ~isnan(chk.data.values[chk.j + 1])
    /\ Abs(chk.data.values[chk.j + 1] - chk.data.values[chk.i + 1])
            < chk.tolerance

\* "j += 1"
ScanExtend ==
    /\ chk.at = "inner"
    /\ ScanGoesOn
    /\ chk' = [chk EXCEPT !.j = @ + 1]
    /\ UNCHANGED <<engine_vars, rep, app, dm, reg>>

\* The end of the inner loop: the run is flagged when it is long enough,
\* and "i = j".
ScanClose ==
    /\ chk.at = "inner"
    /\ ~ScanGoesOn
    /\ chk' = [chk EXCEPT
                !.at = "outer",
                !.flags = IF chk.j - chk.i >= chk.min_stuck_count
                          THEN @ \o StuckSensor_flag_run(chk.variable, chk.data,
                                                         chk.i, chk.j)
                          ELSE @,
                !.examined = Append(@, <<chk.i, chk.j>>),
                !.i = AfterRun(chk.i, chk.j)]
    /\ UNCHANGED <<engine_vars, rep, app, dm, reg>>

\* "while i < len(values)" is false: "return flags"
ScanReturn ==
    /\ chk.at = "outer"
    /\ chk.i >= Len(chk.data.values)
    /\ chk' = [chk EXCEPT !.at = "returned"]
    /\ UNCHANGED <<engine_vars, rep, app, dm, reg>>

NextScan ==
    \/ ScanEnter
    \/ ScanSkipNaN
    \/ ScanBegin
    \/ ScanExtend
    \/ ScanClose
    \/ ScanReturn

\* The run is one thread of control, which takes its next step as long
\* as it has one.
SpecScan == InitScan /\ [][NextScan]_vars /\ WF_vars(NextScan)

(***************************************************************************)
(* The engine and the checks on their own side by side: a behaviour is one *)
(* of an engine, or one of a check run on a series.                        *)
(***************************************************************************)
InitRuns == Init \/ InitChecks

NextRuns ==
    \/ chk = NoChk /\ Next
    \/ chk # NoChk /\ NextChecks

SpecRuns == InitRuns /\ [][NextRuns]_vars

(***************************************************************************)
(* The reports on their own: a report of at most MaxFlags flags is         *)
(* serialized, and restored from what the serialization gave.              *)
(***************************************************************************)
MaxFlags == 3

\* What a report holds beside its flags.
ReportHeaders ==
    {QCReport("unknown", 43200, <<"wind_speed", "wind_direction">>,
              <<"range_check", "gap_check">>, NoMetadata),
     QCReport("mast.nc", 90061, <<"wind_direction", "temperature">>, <<>>,
              [k \in {"site"} |-> "mast"]),
     QCReport("mast.nc", 0, <<>>, <<"manual">>, NoMetadata)}

\* A flag of the severity, as the checks and a reviewer make them.
FlagOfSeverity(timestamp, variable, severity) ==
    CASE severity = "GOOD" ->
            [Flag(timestamp, variable, "GOOD", "MANUAL", "manual", <<"">>, 0)
                EXCEPT !.auto_generated = FALSE]
      [] severity = "SUSPECT" ->
            Flag(timestamp, variable, "SUSPECT", "GAP", "gap_check",
                 <<"Time gap detected", 3000>>, 1)
      [] severity = "BAD" ->
            Flag(timestamp, variable, "BAD", "RANGE_CHECK", "range_check",
                 <<"above maximum", 80, 75>>, 2)
      [] severity = "MISSING" ->
            Flag(timestamp, variable, "MISSING", "GAP", "gap_check",
                 <<"Missing value (NaN)">>, 3)

ReportFlags ==
    {FlagOfSeverity(Some(600), "wind_speed", sev) : sev \in FlagSeverity}
    \cup {FlagOfSeverity(Some(90061), "wind_direction", sev) : sev \in FlagSeverity}
    \cup {FlagOfSeverity(None, "wind_speed", "BAD")}

\* Eight flags of one variable: four good, three suspect and two bad
\* samples, mixed.
EightFlags ==
    [p \in 1..8 |->
        FlagOfSeverity(Some(600), "wind_speed",
            <<"GOOD", "GOOD", "BAD", "GOOD", "SUSPECT", "BAD", "SUSPECT",
              "SUSPECT">>[p])]

InitReports ==
    /\ app = NoApp
    /\ dm = NoDm
    /\ reg = NoReg
    /\ config = EmptyConfig
    /\ registry = DefaultRegistry
    /\ pc = "idle"
    /\ NoCall
    /\ chk = NoChk
    /\ \E header \in ReportHeaders,
          flags \in SeqsUpTo(ReportFlags, MaxFlags) \cup {EightFlags} :
         rep = [NoRep EXCEPT !.step = "new",
                             !.report = add_flags(header, flags)]

\* data = report.to_dict()
ToDict ==
    /\ rep.step = "new"
    /\ LET outcome == QCReport_to_dict(rep.report)
       IN  rep' = IF outcome.raised
                  THEN [rep EXCEPT !.step = "to_dict raised"]
                  ELSE [rep EXCEPT !.step = "serialized",
                                   !.wire = Some(outcome.value)]
    /\ UNCHANGED <<engine_vars, chk, app, dm, reg>>

\* QCReport.from_dict(data)
FromDict ==
    /\ rep.step = "serialized"
    /\ rep' = [rep EXCEPT !.step = "restored",
                          !.restored = Some(QCReport_from_dict(TheValue(rep.wire)))]
    /\ UNCHANGED <<engine_vars, chk, app, dm, reg>>

\* compute_quality_score(report)
Score ==
    /\ rep.step = "new"
    /\ rep' = [rep EXCEPT !.step = "scored",
                          !.score = Some(compute_quality_score(rep.report))]
    /\ UNCHANGED <<engine_vars, chk, app, dm, reg>>

\* The list with the elements of positions i and i+1 exchanged.
SwapAdjacent(list, i) ==
    [p \in 1..Len(list) |->
        IF p = i THEN list[i + 1] ELSE IF p = i + 1 THEN list[i] ELSE list[p]]

\* compute_quality_score of the report with two neighbouring flags
\* exchanged.
ScoreReordered ==
    /\ rep.step = "scored"
    /\ \E i \in 1..(Len(rep.report.flags) - 1) :
         rep' = [rep EXCEPT
                    !.step = "rescored",
                    !.reordered =
                        Some(compute_quality_score(
                            [rep.report EXCEPT
                                !.flags = SwapAdjacent(rep.report.flags, i)]))]
    /\ UNCHANGED <<engine_vars, chk, app, dm, reg>>

\* compute_variable_scores(report)
VariableScores ==
    /\ rep.step = "new"
    /\ LET outcome == compute_variable_scores(rep.report)
       IN  rep' = IF outcome.raised
                  THEN [rep EXCEPT !.step = "compute_variable_scores raised"]
                  ELSE [rep EXCEPT !.step = "variable_scores",
                                   !.scores = Some(outcome.value)]
    /\ UNCHANGED <<engine_vars, chk, app, dm, reg>>

NextReports ==
    \/ ToDict
    \/ FromDict
    \/ Score
    \/ ScoreReordered
    \/ VariableScores

SpecReports == InitReports /\ [][NextReports]_vars

(***************************************************************************)
(* gui/controllers/qc_controller.py: the two review operations on the      *)
(* report of the application state, state.qc_report, which is None or a    *)
(* report. A flag of that report carries the field "id" beside the fields  *)
(* of the dataclass: which Flag object it is.                              *)
(***************************************************************************)
\* A variant of accept_flag: auto_generated is switched over.
accept_flag_toggle(qc_report, flag_index) ==
    IF qc_report = None THEN qc_report
    ELSE IF 0 <= flag_index /\ flag_index < Len(TheValue(qc_report).flags)
    THEN Some([TheValue(qc_report) EXCEPT
                !.flags[flag_index + 1].auto_generated = ~@])
    ELSE qc_report

\* QCController.accept_flag(flag_index), as the state.qc_report it leaves.
accept_flag(qc_report, flag_index) ==
    IF qc_report = None THEN qc_report
    ELSE IF 0 <= flag_index /\ flag_index < Len(TheValue(qc_report).flags)
    THEN Some([TheValue(qc_report) EXCEPT
                !.flags[flag_index + 1].auto_generated = FALSE])
    ELSE qc_report

\* del list[i], for 0 <= i < len(list).
DelAt(list, i) == SubSeq(list, 1, i) \o SubSeq(list, i + 2, Len(list))

\* A variant of reject_flag: "if flag_index < len(flags)", so that -1
\* deletes the last flag of a list that has one.
reject_flag_from_end(qc_report, flag_index) ==
    IF qc_report = None THEN qc_report
    ELSE IF flag_index < Len(TheValue(qc_report).flags)
            /\ TheValue(qc_report).flags # <<>>
    THEN Some([TheValue(qc_report) EXCEPT
                !.flags = DelAt(@, IF flag_index < 0 THEN Len(@) - 1
                                   ELSE flag_index)])
    ELSE qc_report

\* QCController.reject_flag(flag_index), as the state.qc_report it leaves.
reject_flag(qc_report, flag_index) ==
    IF qc_report = None THEN qc_report
    ELSE IF 0 <= flag_index /\ flag_index < Len(TheValue(qc_report).flags)
    THEN Some([TheValue(qc_report) EXCEPT !.flags = DelAt(@, flag_index)])
    ELSE qc_report

(***************************************************************************)
(* A report under review: flags are added to it (QCReport.add_flag), and   *)
(* accepted or rejected through the controller, MaxOps times at most.      *)
(* app.last and app.index are the last operation and its flag_index,       *)
(* app.before is state.qc_report as it was before it, and app.removed are  *)
(* the ids of the flags that were deleted.                                 *)
(***************************************************************************)
MaxOps == 3

\* The Flag object number id.
ReviewFlag(severity, id) ==
    [id |-> id] @@ FlagOfSeverity(Some(600), "wind_speed", severity)

\* The reports put under review: flags of a person (GOOD, not
\* auto-generated) and of a check (BAD), numbered in their order.
ReviewReports ==
    {add_flags(QCReport("mast.nc", 43200, <<"wind_speed">>,
                        <<"range_check", "gap_check">>, NoMetadata),
               [p \in 1..Len(severities) |-> ReviewFlag(severities[p], p)]) :
        severities \in SeqsUpTo({"GOOD", "BAD"}, MaxFlags)}

FlagIds(qc_report) ==
    IF qc_report = None THEN {}
    ELSE {TheValue(qc_report).flags[p].id :
            p \in 1..Len(TheValue(qc_report).flags)}

\* The flag_index values tried: every index of the list, the one below
\* and the one above.
IndexInputs ==
    IF app.qc_report = None THEN {-1, 0}
    ELSE -1..Len(TheValue(app.qc_report).flags)

InitReview ==
    /\ dm = NoDm
    /\ reg = NoReg
    /\ config = EmptyConfig
    /\ registry = DefaultRegistry
    /\ pc = "idle"
    /\ NoCall
    /\ chk = NoChk
    /\ rep = NoRep
    /\ \E qc_report \in {None} \cup {Some(r) : r \in ReviewReports} :
         app = [NoApp EXCEPT !.qc_report = qc_report]

\* What an operation that leaves state.qc_report as after does to app.
Reviewed(operation, flag_index, after) ==
    [qc_report |-> after, ops |-> app.ops + 1, last |-> operation,
     index |-> flag_index, before |-> app.qc_report,
     removed |-> app.removed \cup (FlagIds(app.qc_report) \ FlagIds(after))]

\* state.qc_report.add_flag(flag), of a new SUSPECT flag.
AddFlag ==
    /\ app.ops < MaxOps
    /\ app.qc_report # None
    /\ app' = Reviewed("add_flag", 0,
                  Some(add_flag(TheValue(app.qc_report),
                                ReviewFlag("SUSPECT", MaxFlags + app.ops + 1))))
    /\ UNCHANGED <<engine_vars, chk, rep, dm, reg>>

AcceptFlag ==
    /\ app.ops < MaxOps
    /\ \E flag_index \in IndexInputs :
         app' = Reviewed("accept_flag", flag_index,
                         accept_flag(app.qc_report, flag_index))
    /\ UNCHANGED <<engine_vars, chk, rep, dm, reg>>

RejectFlag ==
    /\ app.ops < MaxOps
    /\ \E flag_index \in IndexInputs :
         app' = Reviewed("reject_flag", flag_index,
                         reject_flag(app.qc_report, flag_index))
    /\ UNCHANGED <<engine_vars, chk, rep, dm, reg>>

NextReview ==
    \/ AddFlag
    \/ AcceptFlag
    \/ RejectFlag

SpecReview == InitReview /\ [][NextReview]_vars

(***************************************************************************)
(* What the properties below are stated with.                              *)
(***************************************************************************)
Elements(s) == {s[i] : i \in 1..Len(s)}

\* How many flags of a list are about the sample of index i.
FlagsAt(flags, i) == Cardinality({p \in 1..Len(flags) : flags[p].sample = i})

\* x occurs before y in the list.
Precedes(list, x, y) ==
    \E a, b \in 1..Len(list) : a < b /\ list[a] = x /\ list[b] = y

PrecedesOrEquals(list, x, y) ==
    \E a, b \in 1..Len(list) : a <= b /\ list[a] = x /\ list[b] = y

\* The runs a call of QCEngine.run makes, outer loop over the variables
\* and inner loop over the checks, for the variables that are in the
\* dataset and the checks that apply to them.
ExecutionOrder(names, checks_, ds) ==
    LET PerVariable(v) ==
            IF ~InDataset(ds, names[v]) THEN <<>>
            ELSE LET PerCheck(c) ==
                         IF is_applicable(checks_[c], names[v], ds.arrays[names[v]])
                         THEN << [variable |-> names[v], check |-> checks_[c]] >>
                         ELSE <<>>
                 IN  ForRange(1, Len(checks_) + 1, PerCheck)
    IN  ForRange(1, Len(names) + 1, PerVariable)

\* The flags of these runs, one run after the other.
FlagsOf(runs, ds, cfg) ==
    LET PerRun(k) == run(runs[k].check, runs[k].variable,
                         ds.arrays[runs[k].variable], cfg).flags
    IN  ForRange(1, Len(runs) + 1, PerRun)

CallsOf(runs) == [k \in 1..Len(runs) |-> <<runs[k].variable, runs[k].check.name>>]

Raises(a_run, ds, cfg) ==
    run(a_run.check, a_run.variable, ds.arrays[a_run.variable], cfg).raised

\* C1: the flags of a returned report are in execution order: those of an
\* earlier variable of the variables-to-check list come first, within one
\* variable those of an earlier check of the checks-to-run list come first,
\* and within one (variable, check) pair they are in the order the check
\* returned them; nothing reorders them.
C1_ExecutionOrder ==
    pc = "returned" =>
        LET r == TheValue(result)
        IN  /\ r.flags = FlagsOf(ExecutionOrder(vars_to_check, checks_to_run,
                                                dataset), dataset, config)
            /\ \A p, q \in 1..Len(r.flags) :
                 p < q =>
                   \/ Precedes(r.variables_checked, r.flags[p].variable,
                               r.flags[q].variable)
                   \/ /\ r.flags[p].variable = r.flags[q].variable
                      /\ PrecedesOrEquals(r.checks_run, r.flags[p].check_name,
                                          r.flags[q].check_name)

\* Flags of two variables and, for one of them, of two checks, the later
\* flags earlier in time than the first ones.
C1_Witness ==
    /\ pc = "returned"
    /\ \E p, q, u \in 1..Len(report.flags) :
         /\ p < q /\ q < u
         /\ report.flags[p].variable = "wind_direction"
         /\ report.flags[q].variable = "wind_speed"
         /\ report.flags[q].check_name = "range_check"
         /\ report.flags[u].check_name = "stuck_sensor"
         /\ report.flags[u].sample < report.flags[q].sample

\* C2: run checks exactly the variables of the list it is given, the empty
\* list included (then no variable is checked and no flag is produced), and
\* all the variables of the dataset only when no list is given.
C2_VariablesAsGiven ==
    pc \in {"running", "returned", "raised"} =>
        /\ variables # None =>
             /\ vars_to_check = TheValue(variables)
             /\ report.variables_checked = TheValue(variables)
        /\ variables = None => vars_to_check = dataset.data_vars
        /\ variables = Some(<<>>) => calls = <<>> /\ report.flags = <<>>

\* C3: a requested variable that is not in the dataset raises nothing, has
\* no check invoked and no flag, and the variables after it are processed
\* as if it had not been requested.
C3_AbsentVariableSkipped ==
    LET present == SelectSeq(vars_to_check, LAMBDA v : InDataset(dataset, v))
        expected == ExecutionOrder(present, checks_to_run, dataset)
    IN  /\ pc \in {"running", "returned", "raised"} =>
              /\ \A k \in 1..Len(calls) : InDataset(dataset, calls[k][1])
              /\ \A p \in 1..Len(report.flags) :
                    InDataset(dataset, report.flags[p].variable)
        /\ pc = "raised" => Raises(expected[Len(calls)], dataset, config)
        /\ pc = "returned" =>
              /\ error = "none"
              /\ calls = CallsOf(expected)
              /\ TheValue(result).flags = FlagsOf(expected, dataset, config)

\* An absent variable requested before one that is flagged.
C3_Witness ==
    /\ pc = "returned"
    /\ Len(vars_to_check) >= 2
    /\ ~InDataset(dataset, vars_to_check[1])
    /\ InDataset(dataset, vars_to_check[2])
    /\ report.flags # <<>>

\* C4: for a list of names given as checks, the checks to run are the
\* registered entries of the list in the order of the list, the others
\* dropped without error; checks_run of the report is that list; and every
\* flag of a report has its check_name in checks_run and its variable in
\* variables_checked.
C4_RequestedChecks ==
    pc \in {"running", "returned", "raised"} =>
        /\ checks # None =>
             LET registered == SelectSeq(TheValue(checks),
                                         LAMBDA n : Contains(registry, n))
             IN  /\ Names(checks_to_run) = registered
                 /\ report.checks_run = registered
                 /\ \A k \in 1..Len(checks_to_run) :
                      get_check(registry, registered[k]) = Some(checks_to_run[k])
        /\ \A k \in 1..Len(calls) : calls[k][2] \in Elements(report.checks_run)
        /\ \A p \in 1..Len(report.flags) :
             /\ report.flags[p].check_name \in Elements(report.checks_run)
             /\ report.flags[p].variable \in Elements(report.variables_checked)

\* An unregistered name is dropped, and the registered one after it is run.
C4_Witness ==
    /\ pc = "returned"
    /\ checks = Some(<<"failing_check", "range_check">>)
    /\ ~Contains(registry, "failing_check")
    /\ report.checks_run = <<"range_check">>
    /\ report.flags # <<>>

BuiltinNames ==
    <<"range_check", "spike_check", "stuck_sensor", "gap_check", "ramp_rate",
      "wind_direction_wrap">>

\* The names of a list that are among those of the set, in the list's order.
Restrict(list, set) == SelectSeq(list, LAMBDA n : n \in set)

\* C5: get_checks(None) returns every registered check once, in
\* registration order: a fresh engine has the six built-ins in the order
\* range_check, spike_check, stuck_sensor, gap_check, ramp_rate,
\* wind_direction_wrap, and a check registered later comes after those
\* registered before it; with checks=None run executes the checks in this
\* order for each variable.
C5_RegistrationOrder ==
    LET all == get_checks(registry, None)
        names == Names(all)
        never_removed == {"spike_check", "stuck_sensor", "gap_check",
                          "ramp_rate", "wind_direction_wrap"}
    IN  /\ Names(get_checks(DefaultRegistry, None)) = BuiltinNames
        /\ \A a, b \in 1..Len(all) : names[a] = names[b] => a = b
        /\ \A n \in AllCheckNames :
             get_check(registry, n) # None =>
                \E a \in 1..Len(all) : get_check(registry, n) = Some(all[a])
        /\ Restrict(names, never_removed) = Restrict(BuiltinNames, never_removed)
        /\ \A n \in never_removed : ~Precedes(names, "failing_check", n)
        /\ names[1] # "range_check" =>
             \A n \in never_removed : ~Precedes(names, "range_check", n)
        /\ (pc \in {"running", "returned", "raised"} /\ checks = None) =>
             /\ checks_to_run = all
             /\ report.checks_run = names
        /\ (pc = "returned" /\ checks = None) =>
             \A v \in Elements(vars_to_check) :
                LET applicable ==
                        {c.name : c \in {x \in Elements(all) :
                            is_applicable(x, v, dataset.arrays[v])}}
                    invoked == SelectSeq(calls, LAMBDA call : call[1] = v)
                    times == Cardinality({k \in 1..Len(vars_to_check) :
                                            vars_to_check[k] = v})
                IN  InDataset(dataset, v) =>
                      /\ Len(invoked) = times * Cardinality(applicable)
                      /\ \A k \in 1..Cardinality(applicable) :
                           invoked[k][2] = Restrict(names, applicable)[k]

\* All the checks were run on a direction variable, by an engine on which
\* range_check was unregistered and registered again after the others.
C5_Witness ==
    /\ pc = "returned"
    /\ checks = None
    /\ Names(registry) = Tail(BuiltinNames) \o <<"range_check">>
    /\ \E k \in 1..(Len(calls) - 5) :
         /\ calls[k] = <<"wind_direction", "spike_check">>
         /\ calls[k + 5] = <<"wind_direction", "range_check">>

\* C6: run_single_check fails with an "unknown check" error and runs no
\* check when the name is not registered; when it is, what it returns is
\* the output of that check's run on the variable's series, is_applicable
\* not being consulted.
C6_RunSingleCheck ==
    pc \in {"single_returned", "single_raised"} =>
        LET check == get_check(registry, single.check_name)
        IN  /\ check = None =>
                /\ pc = "single_raised"
                /\ error = "ValueError: Unknown check"
                /\ calls = <<>>
            /\ error = "ValueError: Unknown check" => check = None
            /\ (check # None /\ InDataset(dataset, single.variable)) =>
                LET direct == run(TheValue(check), single.variable,
                                  dataset.arrays[single.variable], config)
                IN  /\ calls = << <<single.variable, single.check_name>> >>
                    /\ pc = "single_returned" <=> ~direct.raised
                    /\ pc = "single_returned" => single.flags = direct.flags

\* wind_direction_wrap run on a variable that is no direction, with flags.
C6_Witness ==
    /\ pc = "single_returned"
    /\ single.check_name = "wind_direction_wrap"
    /\ single.variable = "wind_speed"
    /\ single.flags # <<>>

\* The first run of a list of runs that raises, or 0.
FirstRaising(runs, ds, cfg) ==
    IF \E k \in 1..Len(runs) : Raises(runs[k], ds, cfg)
    THEN CHOOSE k \in 1..Len(runs) :
            /\ Raises(runs[k], ds, cfg)
            /\ \A j \in 1..(k - 1) : ~Raises(runs[j], ds, cfg)
    ELSE 0

\* C7: when a check's run raises during QCEngine.run, the failure leaves
\* run, no later (variable, check) pair is invoked, and no report is
\* returned, not even a partial one.
C7_FailurePropagates ==
    LET expected == ExecutionOrder(vars_to_check, checks_to_run, dataset)
        first == FirstRaising(expected, dataset, config)
    IN  /\ pc = "raised" =>
              /\ error = "CheckError"
              /\ result = None
              /\ first > 0
              /\ calls = SubSeq(CallsOf(expected), 1, first)
        /\ pc = "returned" => first = 0
        /\ (pc = "running" /\ first > 0) => Len(calls) < first

\* A run raised after flags were collected, before the last pair.
C7_Witness ==
    /\ pc = "raised"
    /\ report.flags # <<>>
    /\ Len(calls) < Len(ExecutionOrder(vars_to_check, checks_to_run, dataset))

\* C8: with both bounds resolved, RangeCheck emits exactly one
\* BAD/RANGE_CHECK flag for every sample that is not NaN and is below the
\* minimum or above the maximum, and none for a NaN sample or a sample
\* within the inclusive bounds, so that the number of flags is the number
\* of such samples; scenario A gives one flag, at index 8.
C8_RangeFlags ==
    LET min_val == RangeCheck_min(chk.variable, chk.config)
        max_val == RangeCheck_max(chk.variable, chk.config)
        values == chk.data.values
        n == Len(values)
        Outside(i) ==
            /\ values[i + 1] # NaN
            /\ values[i + 1] < TheValue(min_val) \/ values[i + 1] > TheValue(max_val)
    IN  (chk.ran = "range_check" /\ min_val # None /\ max_val # None) =>
          /\ \A i \in 0..(n - 1) :
                FlagsAt(chk.flags, i) = IF Outside(i) THEN 1 ELSE 0
          /\ \A p \in 1..Len(chk.flags) :
                /\ chk.flags[p].sample \in 0..(n - 1)
                /\ chk.flags[p].severity = "BAD"
                /\ chk.flags[p].reason = "RANGE_CHECK"
                /\ chk.flags[p].variable = chk.variable
                /\ chk.flags[p].timestamp = TimesOf(chk.data)[chk.flags[p].sample + 1]
          /\ Len(chk.flags) = Cardinality({i \in 0..(n - 1) : Outside(i)})
          /\ (values = ScenarioA /\ chk.variable = "wind_speed"
              /\ chk.config = EmptyConfig) =>
                /\ Len(chk.flags) = 1
                /\ chk.flags[1].sample = 8

\* A series with a sample below the minimum, one on a bound, one above the
\* maximum and a NaN.
C8_Witness ==
    /\ chk.ran = "range_check"
    /\ chk.data.values = <<0, 1, 2, NaN>>
    /\ RangeCheck_min(chk.variable, chk.config) = Some(1)
    /\ RangeCheck_max(chk.variable, chk.config) = Some(1)
    /\ Len(chk.flags) = 2

SpikeWindowSize(cfg) ==
    TheValue(get_config_value(cfg, "spike_check", "window_size", Some(5)))

\* C9: SpikeCheck never flags the last index n-1 nor an index below the
\* window size w: every flag is at an index i with w <= i <= n-2, and a
\* series with n <= w+1 has no flags.
C9_SpikeBoundary ==
    chk.ran = "spike_check" =>
        LET w == SpikeWindowSize(chk.config)
            n == Len(chk.data.values)
        IN  /\ \A p \in 1..Len(chk.flags) :
                 /\ w <= chk.flags[p].sample
                 /\ chk.flags[p].sample <= n - 2
                 /\ chk.flags[p].sample # n - 1
            /\ n <= w + 1 => chk.flags = <<>>

\* A spike is flagged at index w = n-2, and the last sample, further from
\* its window than the threshold, is not.
C9_Witness ==
    /\ chk.ran = "spike_check"
    /\ chk.data.values = <<0, 1, 2, 0>>
    /\ SpikeWindowSize(chk.config) = 2
    /\ Len(chk.flags) = 1
    /\ chk.flags[1].sample = 2
    /\ ZScoreExceeds(<<1, 2>>, 0, 2)

StuckMinCount(cfg) ==
    TheValue(get_config_value(cfg, "stuck_sensor", "min_stuck_count", Some(6)))

StuckTolerance(cfg) ==
    TheValue(get_config_value(cfg, "stuck_sensor", "tolerance", Some(1)))

\* The samples of indices a..b-1 are not NaN and each within the tolerance
\* of the first of them.
NearEqualRun(values, a, b, tolerance) ==
    /\ 0 <= a /\ a < b /\ b <= Len(values)
    /\ \A k \in a..(b - 1) :
         /\ values[k + 1] # NaN
         /\ Abs(values[k + 1] - values[a + 1]) < tolerance

\* A run that no sample before it or after it extends.
MaximalRun(values, a, b, tolerance) ==
    /\ NearEqualRun(values, a, b, tolerance)
    /\ ~NearEqualRun(values, a, b + 1, tolerance)
    /\ ~NearEqualRun(values, a - 1, b, tolerance)

\* C10 as stated: for any maximal run of at least min_stuck_count
\* consecutive non-NaN samples each within tolerance of the run's first
\* value, there is exactly one SUSPECT/STUCK_SENSOR flag for every sample of
\* the run, and no flag for a sample that is in no such run.
C10_AnyMaximalRun ==
    chk.ran = "stuck_sensor" =>
        LET values == chk.data.values
            n == Len(values)
            tolerance == StuckTolerance(chk.config)
            Long(a, b) == /\ MaximalRun(values, a, b, tolerance)
                          /\ b - a >= StuckMinCount(chk.config)
        IN  \A k \in 0..(n - 1) :
                IF \E a \in 0..k, b \in (k + 1)..n : Long(a, b)
                THEN FlagsAt(chk.flags, k) = 1
                ELSE FlagsAt(chk.flags, k) = 0

\* Where the run that starts at the sample of index a ends.
RunEnd(values, a, tolerance) ==
    CHOOSE b \in (a + 1)..Len(values) :
        /\ NearEqualRun(values, a, b, tolerance)
        /\ ~NearEqualRun(values, a, b + 1, tolerance)

\* The runs of the left-to-right scan: a run starts at a sample that is not
\* NaN and is in no run that starts before it.
ScanStarts(values, tolerance) ==
    LET started[a \in 0..(Len(values) - 1)] ==
            /\ values[a + 1] # NaN
            /\ \A s \in 0..(a - 1) :
                  started[s] => RunEnd(values, s, tolerance) <= a
    IN  {a \in 0..(Len(values) - 1) : started[a]}

\* C10, for the runs of the scan: a run starts at the first non-NaN sample
\* at or after the end of the run before it and takes the consecutive
\* non-NaN samples that follow, each within tolerance of its first value.
\* For every such run of at least min_stuck_count samples there is exactly
\* one SUSPECT/STUCK_SENSOR flag for every sample of the run, carrying the
\* run length, and there is no flag for any other sample; scenario B gives
\* 10 flags.
C10_ScanRuns ==
    chk.ran = "stuck_sensor" =>
        LET values == chk.data.values
            n == Len(values)
            tolerance == StuckTolerance(chk.config)
            starts == ScanStarts(values, tolerance)
            Long(a) == RunEnd(values, a, tolerance) - a >= StuckMinCount(chk.config)
            InLong(k) == \E a \in starts :
                            /\ a <= k /\ k < RunEnd(values, a, tolerance)
                            /\ Long(a)
        IN  /\ \A k \in 0..(n - 1) :
                 FlagsAt(chk.flags, k) = IF InLong(k) THEN 1 ELSE 0
            /\ \A p \in 1..Len(chk.flags) :
                 /\ chk.flags[p].sample \in 0..(n - 1)
                 /\ chk.flags[p].severity = "SUSPECT"
                 /\ chk.flags[p].reason = "STUCK_SENSOR"
                 /\ \E a \in starts :
                      /\ a <= chk.flags[p].sample
                      /\ chk.flags[p].sample < RunEnd(values, a, tolerance)
                      /\ chk.flags[p].message =
                            <<"Stuck sensor", RunEnd(values, a, tolerance) - a>>
            /\ (values = ScenarioB /\ StuckMinCount(chk.config) = 6) =>
                 Len(chk.flags) = 10

\* A run of three near-equal samples is flagged, after a NaN and before a
\* sample that starts a shorter run.
C10_Witness ==
    /\ chk.ran = "stuck_sensor"
    /\ chk.data.values = <<NaN, 0, 1, 0, 2>> \/ chk.data.values = <<0, 1, 0, 2>>
    /\ StuckTolerance(chk.config) = 2
    /\ StuckMinCount(chk.config) = 3
    /\ Len(chk.flags) = 3

GapMultiplier(cfg) ==
    TheValue(get_config_value(cfg, "gap_check", "gap_multiplier", Some(2)))

\* Twice the median of a non-empty sequence of integers, from its sorted
\* order.
TwiceMedianOf(s) ==
    LET sorted == SortSeq(s, LAMBDA a, b : a < b)
        m == Len(s)
    IN  IF m % 2 = 1 THEN 2 * sorted[(m + 1) \div 2]
        ELSE sorted[m \div 2] + sorted[m \div 2 + 1]

\* The flags of a list that have this severity, in the order of the list.
WithSeverity(flags, severity) == SelectSeq(flags, LAMBDA f : f.severity = severity)

\* C11: on a series with a time coordinate, GapCheck emits a SUSPECT/GAP
\* flag for the index i (1 <= i < n), timestamped time[i], exactly when
\* time[i] - time[i-1] > median(consecutive time deltas) * gap_multiplier
\* (2 when not configured); a series of fewer than 2 samples gets no
\* SUSPECT flag; a series without NaN whose deltas all equal the median but
\* one, which is 5 times the median, gets under the default multiplier
\* exactly one SUSPECT/GAP flag, at that delta, and no MISSING flag.
C11_GapFlags ==
    chk.ran = "gap_check" =>
        LET n == Len(chk.data.values)
            suspects == WithSeverity(chk.flags, "SUSPECT")
        IN  /\ n < 2 => suspects = <<>>
            /\ (chk.data.times # None /\ n >= 2) =>
                LET time == TheValue(chk.data.times)
                    deltas == [i \in 1..(n - 1) |-> time[i + 1] - time[i]]
                    median2 == TwiceMedianOf(deltas)
                    Exceeds(i) == 2 * (time[i + 1] - time[i])
                                    > median2 * GapMultiplier(chk.config)
                    jumps == {i \in 1..(n - 1) : 2 * deltas[i] # median2}
                IN  /\ \A i \in 0..(n - 1) :
                         FlagsAt(suspects, i) =
                            IF i >= 1 /\ Exceeds(i) THEN 1 ELSE 0
                    /\ \A p \in 1..Len(suspects) :
                         /\ suspects[p].reason = "GAP"
                         /\ suspects[p].check_name = "gap_check"
                         /\ suspects[p].sample \in 1..(n - 1)
                         /\ suspects[p].timestamp =
                                Some(time[suspects[p].sample + 1])
                    /\ (/\ \A i \in 1..n : chk.data.values[i] # NaN
                        /\ chk.config = EmptyConfig
                        /\ Cardinality(jumps) = 1
                        /\ \A i \in jumps : 2 * deltas[i] = 5 * median2) =>
                         /\ Len(suspects) = 1
                         /\ suspects[1].sample \in jumps
                         /\ WithSeverity(chk.flags, "MISSING") = <<>>

\* Scenario C: ten hourly samples without NaN, one step of five hours.
C11_Witness ==
    /\ chk.ran = "gap_check"
    /\ chk.data = ScenarioC
    /\ chk.config = EmptyConfig
    /\ Len(chk.flags) = 1
    /\ chk.flags[1].severity = "SUSPECT"
    /\ chk.flags[1].sample = 6
    /\ chk.flags[1].timestamp = Some(36000)

\* C12: for every series given to GapCheck.run, the series without a time
\* coordinate included (its flags then carry an absent timestamp), the
\* number of MISSING/GAP flags is the number of NaN samples: a NaN sample
\* has exactly one MISSING/GAP flag, at that sample, and a sample that is
\* not NaN has none.
C12_MissingFlags ==
    chk.ran = "gap_check" =>
        LET values == chk.data.values
            n == Len(values)
            missing == WithSeverity(chk.flags, "MISSING")
        IN  /\ \A i \in 0..(n - 1) :
                 FlagsAt(missing, i) = IF values[i + 1] = NaN THEN 1 ELSE 0
            /\ \A p \in 1..Len(missing) :
                 /\ missing[p].reason = "GAP"
                 /\ missing[p].sample \in 0..(n - 1)
                 /\ missing[p].timestamp = TimesOf(chk.data)[missing[p].sample + 1]
            /\ Len(missing) = Cardinality({i \in 1..n : values[i] = NaN})

\* The variable names of the datasets whose lower-case form contains
\* "direction" or "dir".
DirectionNames == {"wind_direction", "WIND_DIR"}

\* C13: WindDirectionWrapCheck is applicable to a variable exactly when the
\* lower-cased name of the variable contains "direction" or "dir", and the
\* other five built-in checks are applicable to every variable: QCEngine.run
\* invokes wind_direction_wrap on such variables only and every other
\* built-in check of the checks to run on every variable of the dataset it
\* goes through, so that no report has a wind_direction_wrap flag for a
\* variable whose lower-cased name does not contain "dir".
C13_Applicability ==
    pc \in {"running", "returned", "raised"} =>
        /\ \A k \in 1..Len(calls) :
             calls[k][2] = "wind_direction_wrap" => calls[k][1] \in DirectionNames
        /\ \A p \in 1..Len(report.flags) :
             report.flags[p].check_name = "wind_direction_wrap" =>
                /\ report.flags[p].variable \in DirectionNames
                /\ InStr("dir", Lower(report.flags[p].variable))
        /\ \A v \in DOMAIN dataset.arrays, c \in Elements(registry) :
             c.name \in Elements(BuiltinNames) =>
                (is_applicable(c, v, dataset.arrays[v]) <=>
                    (c.name = "wind_direction_wrap" => v \in DirectionNames))
        /\ pc = "returned" =>
             \A v \in Elements(vars_to_check), c \in Elements(checks_to_run) :
                (InDataset(dataset, v) /\ c.name \in Elements(BuiltinNames)) =>
                    (<<v, c.name>> \in Elements(calls) <=>
                        (c.name = "wind_direction_wrap" => v \in DirectionNames))

\* All the checks were run on a dataset of a speed and of a direction
\* whose name is in upper case: wind_direction_wrap was skipped for the
\* speed and has flagged the direction.
C13_Witness ==
    /\ pc = "returned"
    /\ checks = None
    /\ dataset = UntimedDataset
    /\ <<"wind_speed", "ramp_rate">> \in Elements(calls)
    /\ <<"wind_speed", "wind_direction_wrap">> \notin Elements(calls)
    /\ \E p \in 1..Len(report.flags) :
         /\ report.flags[p].check_name = "wind_direction_wrap"
         /\ report.flags[p].variable = "WIND_DIR"

PenaltyTenths(flags) ==
    LET tenths(severity) ==
            CASE severity = "GOOD" -> 0 [] severity = "SUSPECT" -> 1
              [] severity = "BAD" -> 5 [] severity = "MISSING" -> 3
    IN  SeqSum([p \in 1..Len(flags) |-> tenths(flags[p].severity)])

\* max(0, 1 - total_penalty/flag_count) rounded to 3 decimals, in
\* thousandths: the nearest thousandth, and either one when two are
\* nearest. The flags are not empty.
RoundedScores(flags) ==
    LET n == Len(flags)
        exact == IF 1000 * n - 100 * PenaltyTenths(flags) < 0 THEN 0
                 ELSE 1000 * n - 100 * PenaltyTenths(flags)
        below == exact \div n
        rest == exact % n
    IN  IF 2 * rest < n THEN {below}
        ELSE IF 2 * rest > n THEN {below + 1}
        ELSE {below, below + 1}

\* C15: compute_variable_scores(report) returns normally for every report,
\* a report in which a variable has flags included, and gives every
\* variable of variables_checked the value of compute_quality_score for a
\* report of that variable's flags only: 1.0 when it has none, otherwise
\* max(0, 1 - (sum of the severity weights)/(number of flags)) of its flags
\* rounded to 3 decimals.
C15_VariableScores ==
    rep.step \in {"variable_scores", "compute_variable_scores raised"} =>
        /\ rep.step = "variable_scores"
        /\ \A k \in 1..Len(rep.report.variables_checked) :
             LET var == rep.report.variables_checked[k]
                 var_flags == get_flags_for_variable(rep.report, var)
                 score == TheValue(rep.scores)[var]
             IN  /\ score = compute_quality_score(
                                [rep.report EXCEPT !.flags = var_flags])
                 /\ var_flags = <<>> => score = 1000
                 /\ var_flags # <<>> => score \in RoundedScores(var_flags)

\* C16: compute_quality_score(report) is 1.0 for a report without flags
\* and otherwise max(0, 1 - total_penalty/flag_count) rounded to 3
\* decimals, for the weights GOOD 0.0, SUSPECT 0.1, BAD 0.5, MISSING 0.3;
\* the result is in [0.0, 1.0], and it is the same for the flags in another
\* order.
C16_QualityScore ==
    rep.step \in {"scored", "rescored"} =>
        LET score == TheValue(rep.score)
        IN  /\ rep.report.flags = <<>> => score = 1000
            /\ rep.report.flags # <<>> => score \in RoundedScores(rep.report.flags)
            /\ 0 <= score /\ score <= 1000
            /\ rep.step = "rescored" => TheValue(rep.reordered) = score

RunStep == pc = "running" \/ pc' = "running"

C19_SpikeSkips ==
    chk.ran = "spike_check" =>
        LET w == SpikeWindowSize(chk.config)
            values == chk.data.values
        IN  /\ \A p \in 1..Len(chk.flags) :
                 LET i == chk.flags[p].sample
                     window == DropNaN(SubSeq(values, i - w + 1, i))
                 IN  /\ Len(window) >= 2
                     /\ \E a, b \in 1..Len(window) : window[a] # window[b]
            /\ (\A a, b \in 1..Len(values) : values[a] = values[b])
                  => chk.flags = <<>>

\* The indices of the samples that are not NaN, in their order.
KeptIndices(values) ==
    SelectSeq([p \in 1..Len(values) |-> p - 1], LAMBDA i : ~isnan(values[i + 1]))

\* C20: StuckSensorCheck flags no NaN sample, and a NaN neither extends
\* nor breaks a run: the flagged samples are those that the scan flags on
\* the series without its NaN samples, where the samples on the two sides
\* of a NaN are neighbours and a run's length counts its non-NaN samples
\* (5,5,5,NaN,5,5,5 with min_stuck_count 6 is one flagged run of six).
C20_NaNInRuns ==
    chk.ran = "stuck_sensor" =>
        LET values == chk.data.values
            kept == KeptIndices(values)
            dense == StuckSensor_scan(chk.variable,
                                      DataArray(DropNaN(values), None),
                                      StuckMinCount(chk.config),
                                      StuckTolerance(chk.config), 0)
        IN  /\ \A p \in 1..Len(chk.flags) :
                 ~isnan(values[chk.flags[p].sample + 1])
            /\ [p \in 1..Len(chk.flags) |-> chk.flags[p].sample]
                 = [p \in 1..Len(dense) |-> kept[dense[p].sample + 1]]

SpikeThreshold(cfg) ==
    TheValue(get_config_value(cfg, "spike_check", "threshold_multiplier", Some(3)))

\* |next_val - mean| / s > threshold for the mean and the sample standard
\* deviation s (denominator m-1) of a window of m >= 2 values, s not 0:
\* with S and Q the sum and the sum of squares of the window,
\* s^2 = (m*Q - S*S) / (m*(m-1)), and the comparison is
\* (m-1) * (m*next_val - S)^2 > threshold^2 * m * (m*Q - S*S). The
\* comparison is the same on samples that are all divided by one number.
SampleZExceeds(window, next_val, threshold) ==
    LET m == Len(window)
        S == SeqSum(window)
        Q == SeqSumSq(window)
        dev == m * next_val - S
    IN  /\ m * Q - S * S # 0
        /\ (m - 1) * dev * dev > threshold * threshold * m * (m * Q - S * S)

\* C21: SpikeCheck has a flag at index i, w <= i <= n-2, if and only if
\* value[i] is not NaN, the window value[i-w .. i-1] keeps at least 2
\* values that are not NaN, their sample standard deviation s (denominator
\* m-1) is not 0 and |value[i] - mean| / s > threshold_multiplier; there
\* is exactly one flag at such an index.
C21_SpikeIff ==
    chk.ran = "spike_check" =>
        LET w == SpikeWindowSize(chk.config)
            values == chk.data.values
        IN  \A i \in w..(Len(values) - 2) :
                LET window == DropNaN(SubSeq(values, i - w + 1, i))
                    spike == /\ ~isnan(values[i + 1])
                             /\ Len(window) >= 2
                             /\ SampleZExceeds(window, values[i + 1],
                                               SpikeThreshold(chk.config))
                IN  Cardinality({p \in 1..Len(chk.flags) :
                                    chk.flags[p].sample = i})
                        = IF spike THEN 1 ELSE 0
\* C22: a report with a flag whose timestamp is absent (a flag of a check
\* on a series without a time coordinate) is serialized by to_dict, which
\* does not fail, with the timestamp of that flag null, and from_dict
\* restores a flag with an absent timestamp and every other field as it
\* was.
C22_AbsentTimestamp ==
    (\E p \in 1..Len(rep.report.flags) : rep.report.flags[p].timestamp = None)
        => /\ rep.step # "to_dict raised"
           /\ rep.step \in {"serialized", "restored"} =>
                \A p \in 1..Len(rep.report.flags) :
                    rep.report.flags[p].timestamp = None =>
                        TheValue(rep.wire).flags[p].timestamp = None
           /\ rep.step = "restored" =>
                \A p \in 1..Len(rep.report.flags) :
                    TheValue(rep.restored).flags[p]
                        = FlagFields(rep.report.flags[p])
MaxAngularChange(cfg) ==
    TheValue(get_config_value(cfg, "wind_direction_wrap", "max_angular_change",
                              Some(180)))

\* C23: for every pair of neighbouring angles of a series, negative ones
\* and ones above 360 included, the angular difference d of
\* WindDirectionWrapCheck is in (-180, 180] and differs from
\* angle2 - angle1 by a multiple of 360; with max_angular_change at its
\* default 180 the check has no flag, and a flag is of a configuration
\* with a threshold below 180.
C23_AngularDifference ==
    chk.ran = "wind_direction_wrap" =>
        LET values == chk.data.values
        IN  /\ \A p \in 1..(Len(values) - 1) :
                 (~isnan(values[p]) /\ ~isnan(values[p + 1])) =>
                    LET d == _angular_difference(values[p], values[p + 1])
                    IN  /\ -180 < d
                        /\ d <= 180
                        /\ (d - (values[p + 1] - values[p])) % 360 = 0
            /\ chk.config = EmptyConfig => chk.flags = <<>>
            /\ chk.flags # <<>> =>
                 /\ "wind_direction_wrap" \in DOMAIN chk.config
                 /\ MaxAngularChange(chk.config) < 180

\* From -190 to 370 degrees the difference is 560 - 720 = -160, which a
\* threshold of 90 flags.
C23_Witness ==
    /\ chk.ran = "wind_direction_wrap"
    /\ chk.data.values = <<-190, 370>>
    /\ MaxAngularChange(chk.config) = 90
    /\ _angular_difference(-190, 370) = -160
    /\ Len(chk.flags) = 1
    /\ chk.flags[1].sample = 1
\* C24: when a max_rate resolves and the series has a time coordinate,
\* RampRateCheck has one SUSPECT/RAMP_RATE flag at index i, 1 <= i < n,
\* with the timestamp of sample i, if value[i] and value[i-1] are not NaN,
\* the time between them is not 0 and |value[i] - value[i-1]| divided by
\* it is above max_rate, and no flag at i otherwise (none where the time
\* delta is 0); it has no flag at all when no rate resolves or the series
\* has no time coordinate.
C24_RampFlags ==
    chk.ran = "ramp_rate" =>
        LET values == chk.data.values
            max_rate == RampRateCheck_max_rate(chk.variable, chk.config)
            times == TheValue(chk.data.times)
            \* |dv| / dt > num/den, both sides multiplied by den * dt * dt
            Exceeds(i) ==
                LET dt == times[i + 1] - times[i]
                    dv == Abs(values[i + 1] - values[i])
                IN  /\ dt # 0
                    /\ dv * TheValue(max_rate)[2] * dt
                            > TheValue(max_rate)[1] * dt * dt
        IN  IF max_rate = None \/ chk.data.times = None
            THEN chk.flags = <<>>
            ELSE /\ \A i \in 1..(Len(values) - 1) :
                      FlagsAt(chk.flags, i) =
                        IF /\ ~isnan(values[i + 1])
                           /\ ~isnan(values[i])
                           /\ Exceeds(i)
                        THEN 1 ELSE 0
                 /\ \A p \in 1..Len(chk.flags) :
                      /\ chk.flags[p].sample \in 1..(Len(values) - 1)
                      /\ chk.flags[p].severity = "SUSPECT"
                      /\ chk.flags[p].reason = "RAMP_RATE"
                      /\ chk.flags[p].timestamp
                            = Some(times[chk.flags[p].sample + 1])

\* 0, 6, 0 at the times 0, 600, 600 with the default rate of wind_speed:
\* the step of 6 in ten minutes is flagged, the step of 6 in no time is
\* not.
C24_Witness ==
    /\ chk.ran = "ramp_rate"
    /\ chk.variable = "wind_speed"
    /\ chk.config = EmptyConfig
    /\ chk.data.values = <<0, 6, 0>>
    /\ chk.data.times = Some(<<0, 600, 600>>)
    /\ Len(chk.flags) = 1
    /\ chk.flags[1].sample = 1
    /\ chk.flags[1].timestamp = Some(600)
\* The bound the configuration and the built-in table give: the value of
\* the key of the section "range_check" when both are there, or else the
\* entry of the table for the lower-cased name; entry is 1 for the
\* minimum and 2 for the maximum.
ResolvedBound(variable, cfg, key, entry) ==
    IF "range_check" \in DOMAIN cfg
    THEN IF key \in DOMAIN cfg["range_check"]
         THEN Some(cfg["range_check"][key])
         ELSE DEFAULT_RANGES(Lower(variable))[entry]
    ELSE DEFAULT_RANGES(Lower(variable))[entry]

\* C25: RangeCheck resolves each bound on its own, from the key
\* "{variable}_min" (or "_max") of config["range_check"] when it is there,
\* else from the built-in table under the lower-cased variable name, else
\* as absent. With both bounds absent it has no flag; with one bound
\* absent the flags are those of the other bound alone: one flag at every
\* sample that is not NaN and is below a minimum that is there or above a
\* maximum that is there.
C25_RangeBounds ==
    chk.ran = "range_check" =>
        LET values == chk.data.values
            min_val == ResolvedBound(chk.variable, chk.config,
                                     chk.variable \o "_min", 1)
            max_val == ResolvedBound(chk.variable, chk.config,
                                     chk.variable \o "_max", 2)
        IN  /\ (min_val = None /\ max_val = None) => chk.flags = <<>>
            /\ \A i \in 0..(Len(values) - 1) :
                 FlagsAt(chk.flags, i) =
                    IF /\ ~isnan(values[i + 1])
                       /\ \/ min_val # None /\ values[i + 1] < TheValue(min_val)
                          \/ max_val # None /\ values[i + 1] > TheValue(max_val)
                    THEN 1 ELSE 0
            /\ \A p \in 1..Len(chk.flags) :
                 chk.flags[p].sample \in 0..(Len(values) - 1)

\* For "depth" the table has no bounds and the configuration only a
\* maximum of 1: of the samples 0, 2 the second is flagged.
C25_Witness ==
    /\ chk.ran = "range_check"
    /\ chk.variable = "depth"
    /\ "range_check" \in DOMAIN chk.config
    /\ "depth_max" \in DOMAIN chk.config["range_check"]
    /\ "depth_min" \notin DOMAIN chk.config["range_check"]
    /\ chk.data.values = <<0, 2>>
    /\ Len(chk.flags) = 1
    /\ chk.flags[1].sample = 1
\* How many flags of the list have the value under the key.
CountSeverity(flags, severity) ==
    Len(SelectSeq(flags, LAMBDA f : f.severity = severity))

CountCheck(flags, check_name) ==
    Len(SelectSeq(flags, LAMBDA f : f.check_name = check_name))

\* The sum of the values of a map of counts.
RECURSIVE SumCounts(_, _)
SumCounts(counts, keys) ==
    IF keys = {} THEN 0
    ELSE LET k == CHOOSE k \in keys : TRUE
         IN  counts[k] + SumCounts(counts, keys \ {k})

\* C26: after any add_flag calls, deletions of flags and changes of
\* auto_generated on a report, total_flags is the length of its flags,
\* flags_by_severity has for each severity the number of flags of that
\* severity and flags_by_check for each check_name the number of flags of
\* that check, a key with no flag is not there, and the values of each
\* map add up to total_flags.
C26_Counters ==
    app.qc_report # None =>
        LET r == TheValue(app.qc_report)
            by_severity == flags_by_severity(r)
            by_check == flags_by_check(r)
        IN  /\ total_flags(r) = Len(r.flags)
            /\ \A s \in FlagSeverity :
                 IF CountSeverity(r.flags, s) = 0
                 THEN s \notin DOMAIN by_severity
                 ELSE /\ s \in DOMAIN by_severity
                      /\ by_severity[s] = CountSeverity(r.flags, s)
            /\ DOMAIN by_severity \subseteq FlagSeverity
            /\ \A c \in {"manual", "range_check", "gap_check"} :
                 IF CountCheck(r.flags, c) = 0
                 THEN c \notin DOMAIN by_check
                 ELSE /\ c \in DOMAIN by_check
                      /\ by_check[c] = CountCheck(r.flags, c)
            /\ DOMAIN by_check \subseteq {"manual", "range_check", "gap_check"}
            /\ SumCounts(by_severity, DOMAIN by_severity) = total_flags(r)
            /\ SumCounts(by_check, DOMAIN by_check) = total_flags(r)

\* A report of three flags after a flag was added, one accepted and one
\* rejected: the only BAD flag is gone and BAD is no key any more.
C26_Witness ==
    /\ app.ops = 3
    /\ app.last = "reject_flag"
    /\ app.removed # {}
    /\ \E p \in 1..Len(TheValue(app.before).flags) :
         TheValue(app.before).flags[p].severity = "BAD"
    /\ total_flags(TheValue(app.qc_report)) = 3
    /\ "BAD" \notin DOMAIN flags_by_severity(TheValue(app.qc_report))
    /\ \E p \in 1..3 :
         /\ TheValue(app.qc_report).flags[p].severity = "SUSPECT"
         /\ ~TheValue(app.qc_report).flags[p].auto_generated
\* The step is a call of the review operation.
Called(operation) == app'.ops = app.ops + 1 /\ app'.last = operation

\* The flag_index of the call is an index of the flags before it.
InRange ==
    /\ app.qc_report # None
    /\ 0 <= app'.index
    /\ app'.index < Len(TheValue(app.qc_report).flags)

\* C27: accept_flag(i) with 0 <= i < len(flags) sets flags[i].auto_generated
\* to false and changes no other field of that flag, no other flag, nor
\* the number or the order of the flags; reject_flag(i) removes the flag
\* at position i and keeps the others in their order; without a report or
\* with an index out of range both change nothing. Over accept and reject
\* calls the number of flags does not grow and a flag that was removed is
\* not in the report again.
C27_ReviewFrame ==
    [][/\ (Called("accept_flag") \/ Called("reject_flag")) /\ ~InRange
            => app'.qc_report = app.qc_report
       /\ Called("accept_flag") /\ InRange =>
            LET old == TheValue(app.qc_report)
                new == TheValue(app'.qc_report)
            IN  /\ app'.qc_report # None
                /\ [new EXCEPT !.flags = old.flags] = old
                /\ Len(new.flags) = Len(old.flags)
                /\ \A p \in 1..Len(old.flags) :
                     IF p = app'.index + 1
                     THEN /\ ~new.flags[p].auto_generated
                          /\ [new.flags[p] EXCEPT
                                !.auto_generated = old.flags[p].auto_generated]
                                = old.flags[p]
                     ELSE new.flags[p] = old.flags[p]
       /\ Called("reject_flag") /\ InRange =>
            LET old == TheValue(app.qc_report)
                new == TheValue(app'.qc_report)
            IN  /\ app'.qc_report # None
                /\ [new EXCEPT !.flags = old.flags] = old
                /\ Len(new.flags) = Len(old.flags) - 1
                /\ \A p \in 1..Len(new.flags) :
                     new.flags[p] = old.flags[IF p <= app'.index THEN p
                                              ELSE p + 1]
       /\ (Called("accept_flag") \/ Called("reject_flag")) =>
            /\ Cardinality(FlagIds(app'.qc_report))
                    <= Cardinality(FlagIds(app.qc_report))
            /\ FlagIds(app'.qc_report) \subseteq FlagIds(app.qc_report)
            /\ FlagIds(app'.qc_report) \cap app.removed = {}
      ]_vars

\* The first of three flags was rejected, after that the new first one
\* was accepted, and then index 2, which is out of range by now, was
\* rejected.
C27_Witness ==
    /\ app.ops = 3
    /\ app.last = "reject_flag"
    /\ app.index = 2
    /\ app.qc_report = app.before
    /\ Cardinality(app.removed) = 1
    /\ Len(TheValue(app.qc_report).flags) = 2
    /\ TheValue(app.qc_report).flags[1].severity = "BAD"
    /\ ~TheValue(app.qc_report).flags[1].auto_generated
    /\ TheValue(app.qc_report).flags[2].auto_generated
\* The position in the log of the last call of the operation for the
\* name, or 0 when there is none.
LastCall(log, op, name) ==
    IF \E k \in 1..Len(log) : log[k].op = op /\ log[k].name = name
    THEN CHOOSE k \in 1..Len(log) :
            /\ log[k].op = op /\ log[k].name = name
            /\ \A j \in (k + 1)..Len(log) :
                 ~(log[j].op = op /\ log[j].name = name)
    ELSE 0

\* The name was registered and not unregistered since.
Registered(log, name) ==
    LastCall(log, "register", name) > LastCall(log, "unregister", name)

\* The position of the first registration of the name since it was last
\* absent, for a name that is registered.
FirstSinceAbsent(log, name) ==
    CHOOSE k \in 1..Len(log) :
        /\ log[k].op = "register" /\ log[k].name = name
        /\ k > LastCall(log, "unregister", name)
        /\ \A j \in (LastCall(log, "unregister", name) + 1)..(k - 1) :
             ~(log[j].op = "register" /\ log[j].name = name)

\* C28: after any register and unregister calls a CheckRegistry has at
\* most one entry per name; get_check(name) is the check most recently
\* registered under the name, or absent when the name was unregistered
\* since or never registered; len and list_checks agree with
\* get_checks(None); the entries are in the order of each name's first
\* registration since it was last absent (registering an existing name
\* again keeps its place, unregistering and registering moves it to the
\* end); unregistering an unknown name changes nothing.
C28_Registry ==
    LET log == reg.log
        all == get_checks(reg.checks, None)
        names == list_checks(reg.checks)
        known == {"range_check", "spike_check", "no_such_check"}
    IN  /\ \A a, b \in 1..Len(all) : all[a].name = all[b].name => a = b
        /\ \A n \in known :
             get_check(reg.checks, n) =
                IF Registered(log, n)
                THEN Some(log[LastCall(log, "register", n)].check)
                ELSE None
        /\ Len(reg.checks) = Len(all)
        /\ names = [k \in 1..Len(all) |-> all[k].name]
        /\ Cardinality({n \in known : Registered(log, n)}) = Len(all)
        /\ \A a, b \in 1..Len(names) :
             a < b <=> FirstSinceAbsent(log, names[a])
                            < FirstSinceAbsent(log, names[b])
        /\ (/\ log # <<>>
            /\ log[Len(log)].op = "unregister"
            /\ ~Registered(SubSeq(log, 1, Len(log) - 1), log[Len(log)].name))
                => reg.checks = reg.before

\* range_check and spike_check were registered, range_check was
\* unregistered and then registered again with a user's check: it is the
\* one get_check returns, after spike_check.
C28_Witness ==
    /\ Len(reg.log) = 4
    /\ reg.log[3].op = "unregister"
    /\ reg.log[3].name = "range_check"
    /\ list_checks(reg.checks) = <<"spike_check", "range_check">>
    /\ get_check(reg.checks, "range_check") = Some(CustomRangeCheck)
    /\ reg.log[1].check = RangeCheck
    /\ reg.before = <<SpikeCheck>>
\* An iteration of the outer loop ends: the scan is back at its test.
OuterIterationEnds ==
    /\ chk.at \in {"outer", "inner"}
    /\ chk'.at = "outer"
    /\ chk' # chk

\* The runs the scan has examined are disjoint index ranges, one after
\* the other, and the flags are at strictly increasing indices.
ScanDisjoint ==
    /\ \A a, b \in 1..Len(chk.examined) :
         a < b => /\ chk.examined[a][1] < chk.examined[a][2]
                  /\ chk.examined[a][2] <= chk.examined[b][1]
    /\ \A p \in 1..(Len(chk.flags) - 1) :
         chk.flags[p].sample < chk.flags[p + 1].sample
    /\ \A k \in 0..(Len(chk.data.values) - 1) : FlagsAt(chk.flags, k) <= 1
    /\ \A p \in 1..Len(chk.flags) :
         /\ chk.flags[p].reason = "STUCK_SENSOR"
         /\ chk.flags[p].sample \in 0..(Len(chk.data.values) - 1)

\* C29: StuckSensorCheck.run terminates on every finite series, for every
\* min_stuck_count and tolerance: the index i of the outer loop is larger
\* after every iteration, the runs examined are pairwise disjoint index
\* ranges, every sample index has at most one STUCK_SENSOR flag, and the
\* flags are in strictly increasing index order.
C29_ScanTerminates ==
    /\ [][/\ OuterIterationEnds => chk'.i > chk.i
          /\ (chk.at = "inner" /\ chk'.at = "inner" /\ chk' # chk)
                => chk'.j > chk.j /\ chk'.j <= Len(chk.data.values)
         ]_vars
    /\ []ScanDisjoint
    /\ <>(chk.at = "returned")

\* The scan has returned after two runs of two samples, both flagged.
C29_Witness ==
    /\ chk.at = "returned"
    /\ chk.data.values = <<0, 0, 1, 1>>
    /\ chk.min_stuck_count = 2
    /\ chk.tolerance = 1
    /\ chk.examined = <<<<0, 2>>, <<2, 4>>>>
    /\ Len(chk.flags) = 4

\* The flags the scan returns are those of StuckSensorCheck_run.
ScanAgrees ==
    chk.at = "returned" =>
        chk.flags = StuckSensorCheck_run(chk.variable, chk.data, chk.config)
\* The step is a call of undo_last, or of apply_qc_flag.
UndoStep == dm'.log = Append(dm.log, "undo")

ApplyStep == dm'.log = Append(dm.log, "apply")

\* The calls so far are k calls of apply_qc_flag and then k of undo_last.
AppliedAndUndone ==
    \E k \in 1..Len(dm.log) :
        /\ Len(dm.log) = 2 * k
        /\ \A p \in 1..k : dm.log[p] = "apply"
        /\ \A p \in (k + 1)..(2 * k) : dm.log[p] = "undo"

====
